---- MODULE Spec2Model ----
(***************************************************************************)
(* Model of the Markdown -> Notion synchronisation scripts.                *)
(*                                                                         *)
(*   - withRetry            scripts/utils/notionUtils.js  16-42            *)
(*   - findPageBySlug       scripts/utils/notionUtils.js  50-68            *)
(*   - createOrUpdatePage   scripts/utils/notionUtils.js  75-339           *)
(*   - processMarkdownFile / main   scripts/sync-to-notion.js  51-134      *)
(*   - main                 scripts/test-connection.js  663-695            *)
(*   - deleteMissingPages   scripts/upload-to-notion.js  165-191           *)
(*   - markdownToNotionBlocks      unnamed/part_001  6-169                 *)
(*   - transformMarkdownToBlocks   scripts/utils/notionUtils.js  409-567   *)
(*   - markdownToNotionBlocks      scripts/upload-to-notion.js  22-101     *)
(*   - processFile (conversion)    scripts/test-connection.js  218-580     *)
(*   - generateSlug                scripts/import-articles.js  18-24       *)
(*   - the file data of a file     scripts/sync-to-notion.js  64-78,       *)
(*                                 scripts/upload-to-notion.js  219-227,   *)
(*                                 unnamed/part_002  36-45                 *)
(*   - syncAllArticles, createOrUpdatePage                                 *)
(*                                 scripts/upload-to-notion.js  107-241    *)
(*   - runSync, debouncedSync      scripts/config/config.js  63-140,       *)
(*                                 scripts/test-connection.js  580-624     *)
(*   - debounce, handleFileChange  unnamed/part_002  192-254               *)
(*   - runCommand, handleFileChange   scripts/simple-watch.js  46-118      *)
(*                                                                         *)
(* The specifications share the variables:                                 *)
(*   Spec        the batch run: main() walks the file list and upserts     *)
(*               each document against the remote store, one remote call a *)
(*               step, starting from an empty ledger;                      *)
(*   SpecLedger  the batch mains over small files, from any ledger, run    *)
(*               again after the process ended at any point;               *)
(*   SpecRetry   one execution of withRetry(fn, maxAttempts, delay,        *)
(*               factor) against an operation whose outcomes are free;     *)
(*   SpecPrune   one execution of deleteMissingPages;                      *)
(*   SpecConv    one execution of a Markdown converter on a bounded input; *)
(*   SpecSlug    one execution of generateSlug on a bounded title;         *)
(*   SpecRerun   sync-to-notion.js run again after a run that ended at any *)
(*               point, over a document longer than one listing page,      *)
(*               while the file may be modified during the run;            *)
(*   SpecFront   the object literal a batch script hands over for a file;  *)
(*   SpecUpload  syncAllArticles of upload-to-notion.js, followed by       *)
(*               deleteMissingPages;                                       *)
(*   SpecWatch   the chokidar watchers under a bounded number of file      *)
(*               events;                                                   *)
(*   SpecPoll    the handler of the polling watcher, simple-watch.js.      *)
(***************************************************************************)
EXTENDS Integers, Sequences, FiniteSets, TLC

(***************************************************************************)
(* Bounds of the model.                                                    *)
(***************************************************************************)
\* documents of the large configurations carry k*chunkSize + d blocks,
\* k in 1..MaxChunks, d in 0..MaxExtra, or 0..MaxSmallLen blocks
MaxChunks == 2
MaxExtra == 1
MaxSmallLen == 1
\* content length of the documents of the small configurations
MaxTinyLen == 2
\* failures injected into remote calls of one run (small configurations)
MaxFaults == 1
\* withRetry is explored for maxAttempts in 0..MaxAttemptsBound
MaxAttemptsBound == 4
\* invocations of the batch script in a row (SpecLedger)
MaxRuns == 2
\* the converters run on every input of 1..MaxLines lines of CoreLines and
\* on every input of 1..MaxMixedLines lines of LineSet
MaxLines == 3
MaxMixedLines == 2

(***************************************************************************)
(* Program constants.                                                      *)
(***************************************************************************)
\* notionUtils.js:296  const chunkSize = 50
chunkSize == 50
\* notionUtils.js:278  page_size: 100 of blocks.children.list
listPageSize == 100
\* the store's per-call block ceiling (notionUtils.js:296 comment)
StoreCeiling == 100
\* config.js:17-19 and the default arguments of withRetry
defaultMaxAttempts == 3
defaultDelay == 1000
defaultFactor == 2
\* the status withRetry treats as the rate-limit signal (notionUtils.js:26)
RateLimitStatus == 429

Min(a, b) == IF a < b THEN a ELSE b

RECURSIVE Pow(_, _)
Pow(b, e) == IF e = 0 THEN 1 ELSE b * Pow(b, e - 1)

(***************************************************************************)
(* Property values.  Every value has the same shape so that values of      *)
(* different kinds can be compared: kind is the Notion property kind, text *)
(* the scalar payload, items the multi-valued payload, num a timestamp.    *)
(***************************************************************************)
PV(kind, text, items, num) ==
  [kind |-> kind, text |-> text, items |-> items, num |-> num]
TitleV(t) == PV("title", t, << >>, 0)
RichTextV(t) == PV("rich_text", t, << >>, 0)
SelectV(n) == PV("select", n, << >>, 0)
MultiSelectV(s) == PV("multi_select", "", s, 0)
DateV(n) == PV("date", "", << >>, n)
ObjectV(t) == PV("object", t, << >>, 0)

\* String.prototype.toLowerCase on the names and values the model uses; the
\* Chinese names of the source are written in pinyin with a zh_ prefix
\* (zh_leixing for the "type" name of notionUtils.js:138, and so on), they
\* have no upper case
Lower(s) ==
  CASE s = "Slug" -> "slug"
    [] s = "URL" -> "url"
    [] s = "Type" -> "type"
    [] s = "Category" -> "category"
    [] s = "Status" -> "status"
    [] s = "Tags" -> "tags"
    [] s = "Date" -> "date"
    [] s = "Post" -> "post"
    [] s = "Page" -> "page"
    [] s = "Foo" -> "foo"
    [] s = "B" -> "b"
    [] s = "H" -> "h"
    [] s = "W" -> "w"
    [] OTHER -> s

(***************************************************************************)
(* A metadata value of a document (front matter): form is the JavaScript   *)
(* shape of the value, text what String(value) yields.                     *)
(***************************************************************************)
MV(form, text) == [form |-> form, text |-> text]
Undefined == MV("undefined", "")
\* the keys of ...properties the model carries besides tags and status
MetaKeys == {"type", "category"}

\* a schema property of database.properties
SP(name, type, options) == [name |-> name, type |-> type, options |-> options]

\* Array.prototype.find over Object.entries(database.properties): the index
\* of the first property of the kind whose lower-cased name is listed, or 0
FindProp(schema, type, names) ==
  LET hits == {k \in 1..Len(schema) :
                 schema[k].type = type /\ Lower(schema[k].name) \in names}
  IN IF hits = {} THEN 0 ELSE CHOOSE k \in hits : \A j \in hits : k <= j

FindTitleProp(schema) ==
  LET hits == {k \in 1..Len(schema) : schema[k].type = "title"}
  IN IF hits = {} THEN 0 ELSE CHOOSE k \in hits : \A j \in hits : k <= j

\* options.some / options.find on the lower-cased option name
MatchOption(options, typeValue) ==
  LET hits == {k \in 1..Len(options) : Lower(options[k]) = Lower(typeValue)}
  IN IF hits = {} THEN 0 ELSE CHOOSE k \in hits : \A j \in hits : k <= j

\* properties.type || 'Post', then String(typeValue)
TypeValue(doc) ==
  IF \/ doc.meta["type"].form = "undefined"
     \/ doc.meta["type"].form = "string" /\ doc.meta["type"].text = ""
  THEN "Post" ELSE doc.meta["type"].text

NoProps == [n \in {} |-> SelectV("")]
Put(f, k, v) == [n \in (DOMAIN f) \cup {k} |-> IF n = k THEN v ELSE f[n]]
Remove(f, k) == [n \in (DOMAIN f) \ {k} |-> f[n]]
\* pages.update merges the properties it is sent into the record's
Merge(old, new) ==
  [n \in (DOMAIN old) \cup (DOMAIN new) |->
     IF n \in DOMAIN new THEN new[n] ELSE old[n]]

\* notionUtils.js 91-101: the title property
WithTitle(schema, doc, props) ==
  LET k == FindTitleProp(schema)
  IN IF k = 0 THEN props ELSE Put(props, schema[k].name, TitleV(doc.title))

\* notionUtils.js 103-115: the tags property
WithTags(schema, doc, props) ==
  LET k == FindProp(schema, "multi_select",
                    {"zh_biaoqian", "tags", "zh_fenlei", "categories"})
  IN IF k # 0 /\ doc.tags # << >>
     THEN Put(props, schema[k].name, MultiSelectV(doc.tags)) ELSE props

\* notionUtils.js 117-127: the status property
WithStatus(schema, doc, props) ==
  LET k == FindProp(schema, "select", {"zh_zhuangtai", "status", "state"})
  IN IF k = 0 THEN props
     ELSE Put(props, schema[k].name,
              SelectV(IF doc.status # "" THEN doc.status ELSE "published"))

\* notionUtils.js 137-143: the first select property with a type-like name
TypePropNames ==
  {"zh_leixing", "type", "category", "zh_leibie", "zh_fenlei"}
FindTypeProp(schema) == FindProp(schema, "select", TypePropNames)

\* notionUtils.js 145-209: the type property with its first-option fallback
WithType(schema, doc, props) ==
  LET k == FindTypeProp(schema)
  IN IF k = 0 THEN props
     ELSE LET options == schema[k].options
              m == MatchOption(options, TypeValue(doc))
          IN IF m # 0 THEN Put(props, schema[k].name, SelectV(options[m]))
             ELSE IF options # << >>
                  THEN Put(props, schema[k].name, SelectV(options[1]))
                  ELSE Remove(props, schema[k].name)

\* notionUtils.js 211-221: the date property; date 0 is an absent date
WithDate(schema, doc, clock, props) ==
  LET k == FindProp(schema, "date",
                    {"zh_riqi", "date", "created", "updated"})
  IN IF k = 0 THEN props
     ELSE Put(props, schema[k].name,
              DateV(IF doc.date # 0 THEN doc.date ELSE clock))

\* notionUtils.js 223-233: the slug property
SlugPropNames == {"slug", "zh_biaoshifu", "url"}
WithSlug(schema, doc, props) ==
  LET k == FindProp(schema, "rich_text", SlugPropNames)
  IN IF k = 0 THEN props ELSE Put(props, schema[k].name, RichTextV(doc.slug))

\* notionUtils.js 244-260: the value a custom property is sent as
CustomValue(v) ==
  CASE v.form = "array" -> MultiSelectV(<<v.text>>)
    [] v.form = "object" -> ObjectV(v.text)
    [] OTHER -> RichTextV(v.text)

\* notionUtils.js 240: the keys the custom-property loop skips
SkippedKeys == {"title", "slug", "date", "tags", "status"}

\* notionUtils.js 235-261: every other defined key of ...properties is
\* written under its own name
WithCustom(doc, props) ==
  LET keys == {key \in MetaKeys : /\ doc.meta[key].form # "undefined"
                                  /\ Lower(key) \notin SkippedKeys}
  IN [n \in (DOMAIN props) \cup keys |->
        IF n \in keys THEN CustomValue(doc.meta[n]) ELSE props[n]]

\* notionUtils.js 88-261: pageProperties as sent to pages.update / create
PageProperties(schema, doc, clock) ==
  WithCustom(doc,
    WithSlug(schema, doc,
      WithDate(schema, doc, clock,
        WithType(schema, doc,
          WithStatus(schema, doc,
            WithTags(schema, doc,
              WithTitle(schema, doc, NoProps)))))))

(***************************************************************************)
(* State.                                                                  *)
(***************************************************************************)
VARIABLES
  \* --- the remote store ---
  schema,          \* database.properties, in Object.entries order
  pages,           \* the records: [props, children, archived], id = index
  nextId,          \* the next block id the store hands out
  \* --- main() of sync-to-notion.js ---
  docs,            \* the arguments of createOrUpdatePage, in file-list order
  cur,             \* index of the document being processed
  results,         \* per processed document: did processMarkdownFile succeed
  clock,           \* the wall clock (new Date()), one tick per document
  \* --- the entry point and the sync ledger (.notion-sync-state.json) ---
  entry,           \* which script's main runs the batch
  state,           \* the ledger in memory, per file of the list
  disk,            \* the ledger as last written to the state file
  mtime,           \* per file: its modification time
  fileMtime,       \* fileMtime of processMarkdownFile, read before the content
  successCount,    \* main's successCount
  exitCode,        \* the exit status of the process, -1 while it runs
  runsLeft,        \* further invocations of the script the model allows
  \* --- createOrUpdatePage ---
  pc,              \* position in createOrUpdatePage, "start" between files
  existingPageId,  \* result of findPageBySlug, 0 for null
  pageProperties,  \* the properties prepared for the record
  existingBlocks,  \* ids returned by blocks.children.list
  di,              \* position of the delete loop in existingBlocks
  i,               \* the offset of the append loop
  faults,          \* failures the environment may still inject
  \* --- history ---
  calls,           \* every remote call issued, in order
  pagesAtStart,    \* the records when the current document was started
  prevResults,     \* results of the previous invocation when it ended
  \* --- withRetry ---
  rPc,             \* "loop", "returned" or "thrown"
  rMax, rDelay, rFactor,   \* maxAttempts, delay, factor
  rAttempt,        \* the loop variable attempt
  rInvocations,    \* number of times fn was invoked
  rErrors,         \* the errors fn threw, in order
  rWaits,          \* the wait after each failed attempt that was retried
  rLastError,      \* lastError
  rThrown,         \* the error withRetry propagated
  \* --- deleteMissingPages (upload-to-notion.js) ---
  localSlugs,      \* the slugs of the local files, in file order
  pPc,             \* "query", "loop" or "done"
  pResults,        \* results of databases.query: record ids
  pj,              \* position of the for-of loop in pResults
  \* --- the Markdown converters ---
  converter,       \* the function that runs
  lines,           \* markdown.split('\n'), each line a sequence of characters
  li,              \* the loop variable i, counted from 1
  blocks,          \* the blocks pushed so far
  cPc,             \* "scan", "fence", "collect", "done" or "raised"
  language,        \* language of the code block being collected
  codeContent,     \* codeContent of the code block being collected
  currentParagraph, \* the open paragraph of test-connection.js processFile
  fenceOpenedAt,   \* history: the index of the line that opened the fence
  typeofMarkdown,  \* typeof of the argument the converter is called with
  \* --- generateSlug ---
  gTitle,          \* the argument, a sequence of characters
  gSlug,           \* the string the chain of calls has produced so far
  gPc,             \* the call that comes next: "lower", "replace", "strip"; "done"
  \* --- the file data handed to createOrUpdatePage ---
  frontScript,     \* the script that reads the file
  baseName,        \* path.basename(file, '.md')
  frontmatter,     \* data of matter(fileContent): the keys present, with values
  fileData,        \* the object literal as far as it is evaluated
  frontPc,         \* the part of the literal evaluated next
  \* --- the chokidar watchers (config.js 40-, test-connection.js, part_002) ---
  watcher,         \* the script that watches
  syncTimeout,     \* the file of the armed timer, NoFile without one
  isSyncing,       \* the flag of runSync
  pendingFiles,    \* the Set pendingFiles, in insertion order
  syncing,         \* the files whose sync is under way
  started,         \* every file a sync was started for, in order
  eventsLeft,      \* file events the model still allows
  \* --- the polling watcher (simple-watch.js) ---
  isProcessing,    \* the flag of handleFileChange
  pendingChanges,  \* the Set pendingChanges, in insertion order
  currentFile,     \* currentFile of the while loop
  hPc,             \* the command the handler awaits, "idle" outside it
  childProcesses,  \* the child processes that have not ended
  processed,       \* every file taken from the queue, in order
  failures         \* failing or timed-out commands the model still allows

storeVars == <<schema, pages, nextId>>
runVars == <<docs, cur, results, clock>>
upsertVars == <<pc, existingPageId, pageProperties, existingBlocks, di, i, faults>>
ledgerVars == <<entry, state, disk, mtime, fileMtime, successCount, exitCode,
               runsLeft>>
histVars == <<calls, pagesAtStart, prevResults>>
retryVars == <<rPc, rMax, rDelay, rFactor, rAttempt, rInvocations, rErrors,
               rWaits, rLastError, rThrown>>
pruneVars == <<localSlugs, pPc, pResults, pj>>
convVars == <<converter, lines, li, blocks, cPc, language, codeContent,
              currentParagraph, fenceOpenedAt, typeofMarkdown>>
slugVars == <<gTitle, gSlug, gPc>>
frontVars == <<frontScript, baseName, frontmatter, fileData, frontPc>>
watchVars == <<watcher, syncTimeout, isSyncing, pendingFiles, syncing, started,
               eventsLeft>>
pollVars == <<isProcessing, pendingChanges, currentFile, hPc, childProcesses,
              processed, failures>>
\* everything the batch run and withRetry work on
batchVars == <<runVars, upsertVars, ledgerVars, histVars, retryVars>>
vars == <<storeVars, runVars, upsertVars, ledgerVars, histVars, retryVars, pruneVars, convVars, slugVars, frontVars, watchVars, pollVars>>

(***************************************************************************)
(* withRetry  (notionUtils.js 16-42)                                       *)
(***************************************************************************)
Err(status, id) == [status |-> status, id |-> id]
NoError == Err(-1, 0)
\* statuses fn may fail with: rate limit, auth failure, missing database,
\* and an error without a status (network failure)
ErrorStatuses == {RateLimitStatus, 401, 404, 0}

\* notionUtils.js:26  error.status === 429 && attempt < maxAttempts
ShouldWait(status, attempt, maxAttempts) ==
  status = RateLimitStatus /\ attempt < maxAttempts

\* the exponent off by one
WaitTimeFromFactor(delay, factor, attempt) == delay * Pow(factor, attempt)

\* notionUtils.js:27  delay * Math.pow(factor, attempt - 1)
WaitTime(delay, factor, attempt) == delay * Pow(factor, attempt - 1)

\* notionUtils.js:34  attempt === maxAttempts
ShouldThrow(status, attempt, maxAttempts) == attempt = maxAttempts

\* deleteMissingPages and the converters are not running
PruneIdle == localSlugs = << >> /\ pPc = "idle" /\ pResults = << >> /\ pj = 1
ConvIdle ==
  /\ converter = "none" /\ lines = << >> /\ li = 1 /\ blocks = << >>
  /\ cPc = "idle" /\ language = << >> /\ codeContent = << >>
  /\ currentParagraph = << >> /\ fenceOpenedAt = 0
  /\ typeofMarkdown = "string"
SlugIdle == gTitle = << >> /\ gSlug = << >> /\ gPc = "idle"
NoFile == "none"
FrontIdle ==
  /\ frontScript = "none" /\ baseName = << >> /\ frontmatter = << >>
  /\ fileData = << >> /\ frontPc = "idle"
WatchIdle ==
  /\ watcher = "none" /\ syncTimeout = NoFile /\ isSyncing = FALSE
  /\ pendingFiles = << >> /\ syncing = << >> /\ started = << >>
  /\ eventsLeft = 0
PollIdle ==
  /\ isProcessing = FALSE /\ pendingChanges = << >> /\ currentFile = NoFile
  /\ hPc = "idle" /\ childProcesses = << >> /\ processed = << >> /\ failures = 0
\* the scripts of the model that are not running
OthersIdle == SlugIdle /\ FrontIdle /\ WatchIdle /\ PollIdle

RetryIdle ==
  /\ rPc = "idle" /\ rMax = 0 /\ rDelay = 0 /\ rFactor = 0 /\ rAttempt = 0
  /\ rInvocations = 0 /\ rErrors = << >> /\ rWaits = << >>
  /\ rLastError = NoError /\ rThrown = NoError

\* line 21: fn() is invoked and resolves; its result is returned
RetryFnOk ==
  /\ rPc = "loop" /\ rAttempt <= rMax
  /\ rInvocations' = rInvocations + 1
  /\ rPc' = "returned"
  /\ UNCHANGED <<rMax, rDelay, rFactor, rAttempt, rErrors, rWaits,
                 rLastError, rThrown>>

\* lines 21-38: fn() is invoked and throws; the catch block
RetryFnThrows(status) ==
  /\ rPc = "loop" /\ rAttempt <= rMax
  /\ LET error == Err(status, rAttempt)
     IN /\ rInvocations' = rInvocations + 1
        /\ rErrors' = Append(rErrors, error)
        /\ rLastError' = error
        /\ IF ShouldWait(status, rAttempt, rMax)
           THEN \* wait, continue
                /\ rWaits' = Append(rWaits, WaitTime(rDelay, rFactor, rAttempt))
                /\ rAttempt' = rAttempt + 1
                /\ UNCHANGED <<rPc, rThrown>>
           ELSE IF ShouldThrow(status, rAttempt, rMax)
           THEN /\ rPc' = "thrown"
                /\ rThrown' = error
                /\ UNCHANGED <<rWaits, rAttempt>>
           ELSE \* the catch block ends, the for loop goes on
                /\ rWaits' = Append(rWaits, 0)
                /\ rAttempt' = rAttempt + 1
                /\ UNCHANGED <<rPc, rThrown>>
  /\ UNCHANGED <<rMax, rDelay, rFactor>>

\* line 41: the loop ended without return or throw
RetryLoopExit ==
  /\ rPc = "loop" /\ rAttempt > rMax
  /\ rPc' = "thrown"
  /\ rThrown' = rLastError
  /\ UNCHANGED <<rMax, rDelay, rFactor, rAttempt, rInvocations, rErrors,
                 rWaits, rLastError>>

(***************************************************************************)
(* The remote store: the calls of the Notion client the scripts use.       *)
(***************************************************************************)
Page(props, children) == [props |-> props, children |-> children, archived |-> FALSE]
Child(id, val) == [id |-> id, val |-> val]
Vals(children) == [k \in 1..Len(children) |-> children[k].val]
Ids(children) == [k \in 1..Len(children) |-> children[k].id]
\* the children a call stores for the blocks it carries, with fresh ids
Fresh(content, first) == [k \in 1..Len(content) |-> Child(first + k - 1, content[k])]

RECURSIVE Without(_, _)
\* blocks.delete: the children with the block of that id removed
Without(children, id) ==
  IF children = << >> THEN << >>
  ELSE IF Head(children).id = id THEN Tail(children)
  ELSE <<Head(children)>> \o Without(Tail(children), id)

\* notionUtils.js 53-60: databases.query with the filter
\* { property: 'slug', rich_text: { equals: slug } }
QueryProperty == "slug"
QueryMatches(store, slug) ==
  {p \in 1..Len(store) :
     /\ ~store[p].archived
     /\ QueryProperty \in DOMAIN store[p].props
     /\ store[p].props[QueryProperty].kind = "rich_text"
     /\ store[p].props[QueryProperty].text = slug}

\* notionUtils.js 275-280: blocks.children.list returns one page of at most
\* page_size children; the code reads .results only
ListResults(children) == Ids(SubSeq(children, 1, Min(Len(children), listPageSize)))

\* a call carrying more blocks than the store's ceiling is rejected
StoreAccepts(content) == Len(content) <= StoreCeiling

(***************************************************************************)
(* createOrUpdatePage (notionUtils.js 75-339) under processMarkdownFile    *)
(* and main (sync-to-notion.js 51-134).                                    *)
(***************************************************************************)
Doc(title, slug, date, tags, status, meta, content) ==
  [title |-> title, slug |-> slug, date |-> date, tags |-> tags,
   status |-> status, meta |-> meta, content |-> content]

\* the slug check left out
ValidTitleOnly(doc) == doc.title # ""

\* notionUtils.js 76-77: if (!title) throw; if (!slug) throw
Valid(doc) == doc.title # "" /\ doc.slug # ""

\* the new blocks appended before the old ones are listed and deleted
UpdatePathAppendFirst(step) ==
  CASE step = "update" -> "append"
    [] step = "append" -> "list"
    [] step = "list" -> "delete"
    [] step = "delete" -> "return"

\* notionUtils.js 265-310: the order of the steps of the update path
UpdatePathNext(step) ==
  CASE step = "update" -> "list"
    [] step = "list" -> "delete"
    [] step = "delete" -> "append"
    [] step = "append" -> "return"

\* the slice one element too long
ChunkInclusive(content, offset) ==
  SubSeq(content, offset + 1, Min(offset + chunkSize + 1, Len(content)))

\* notionUtils.js 298: content.slice(i, i + chunkSize)
Chunk(content, offset) ==
  SubSeq(content, offset + 1, Min(offset + chunkSize, Len(content)))

\* notionUtils.js 317: children: content || []
CreateChildren(content) == content

\* what the entry point passes to createOrUpdatePage as content:
\* processMarkdownFile passes the body as matter() returned it, a string
\* (sync-to-notion.js 63, 71-73); processFile of notionUtils.js passes the
\* blocks of transformMarkdownToBlocks (588, 616) and processFile of
\* test-connection.js its validBlocks (559)
Handed(e) == IF e = "sync-to-notion" THEN "string" ELSE "blocks"

\* a remote call as the log keeps it; content tells what the children of
\* the call were sliced or taken from
Call(op, page, props, children, ok) ==
  [doc |-> cur, op |-> op, page |-> page, props |-> props,
   children |-> children, ok |-> ok, content |-> Handed(entry)]

\* the scripts whose main runs a batch over the file list
Entries == {"sync-to-notion", "test-connection", "notionUtils"}

\* only sync-to-notion.js keeps the ledger (sync-to-notion.js 106, 125)
HasLedger(e) == e = "sync-to-notion"

\* sync-to-notion.js 81-85: state[relativePath] = {lastSynced, slug, title};
\* present is FALSE for a path the ledger has no key for
Entry(lastSynced, slug, title) ==
  [present |-> TRUE, lastSynced |-> lastSynced, slug |-> slug, title |-> title]
NoEntry == [present |-> FALSE, lastSynced |-> 0, slug |-> "", title |-> ""]

\* the comparison made strict
UpToDateStrict(fileState, modified) ==
  fileState.present /\ fileState.lastSynced > modified

\* sync-to-notion.js 57: fileState && fileState.lastSynced >= fileMtime.getTime()
UpToDate(fileState, modified) ==
  fileState.present /\ fileState.lastSynced >= modified

\* the write left out
PersistedStale(ledger, onDisk) == onDisk

\* sync-to-notion.js 37-43: the whole ledger replaces the state file; its
\* values are numbers and strings, which JSON.stringify and JSON.parse
\* (sync-to-notion.js 23) carry unchanged
Persisted(ledger, onDisk) == ledger

\* sync-to-notion.js 20-31: loadSyncState
Loaded(onDisk) == onDisk

\* how main counts a file whose processing returned `success`:
\* sync-to-notion.js 121-122 and notionUtils.js 641-642 test the returned
\* value; test-connection.js 679-681 awaits processFile, which catches
\* every error and returns false (test-connection.js 563-577), and then
\* increments unconditionally
Counted(e, success) == IF e = "test-connection" THEN TRUE ELSE success

\* sync-to-notion.js 125: main saves the ledger after every file
AfterFile(e) == IF HasLedger(e) THEN "save" ELSE "start"

\* the exit status after the loop: sync-to-notion.js 128-133 and
\* notionUtils.js 644-650 fall off main, test-connection.js 688-689 calls
\* process.exit(0); none of them looks at the failures
ExitStatus(e, failed) == 0

\* the loop stepping over every other file
NextFileSkipping(c) == c + 2

\* sync-to-notion.js 120: for (const file of files)
NextFile(c) == c + 1

\* sync-to-notion.js 54-57: the file's ledger entry says it is up to date
Skipped == HasLedger(entry) /\ UpToDate(state[cur], mtime[cur])

\* the error reaches the catch of processMarkdownFile (sync-to-notion.js
\* 89-92): the file failed, main goes on with the next file
FileFailed ==
  /\ results' = Append(results, FALSE)
  /\ successCount' = successCount + (IF Counted(entry, FALSE) THEN 1 ELSE 0)
  /\ cur' = NextFile(cur)
  /\ clock' = clock + 1
  /\ pc' = AfterFile(entry)
  /\ UNCHANGED <<entry, state, disk, mtime, fileMtime, exitCode, runsLeft>>

\* sync-to-notion.js 57-60: the file is skipped and reported as a success
Skip ==
  /\ pc = "start" /\ cur <= Len(docs)
  /\ Skipped
  /\ results' = Append(results, TRUE)
  /\ successCount' = successCount + (IF Counted(entry, TRUE) THEN 1 ELSE 0)
  /\ cur' = NextFile(cur)
  /\ clock' = clock + 1
  /\ pc' = AfterFile(entry)
  /\ UNCHANGED <<storeVars, docs, existingPageId, pageProperties,
                 existingBlocks, di, i, faults, entry, state, disk, mtime,
                 fileMtime, exitCode, runsLeft, histVars, retryVars, pruneVars, convVars, slugVars, frontVars, watchVars, pollVars>>

\* notionUtils.js 76-77: the document is rejected before any remote call
ValidateFail ==
  /\ pc = "start" /\ cur <= Len(docs)
  /\ ~Skipped
  /\ ~Valid(docs[cur])
  /\ FileFailed
  /\ UNCHANGED <<storeVars, docs, existingPageId, pageProperties,
                 existingBlocks, di, i, faults, histVars, retryVars, pruneVars, convVars, slugVars, frontVars, watchVars, pollVars>>

\* sync-to-notion.js 53, 62-63: the modification time and then the content
\* of the file are read, and createOrUpdatePage is entered
Begin ==
  /\ pc = "start" /\ cur <= Len(docs)
  /\ ~Skipped
  /\ Valid(docs[cur])
  /\ pc' = "retrieve"
  /\ existingPageId' = 0 /\ pageProperties' = NoProps
  /\ existingBlocks' = << >> /\ di' = 1 /\ i' = 0
  /\ pagesAtStart' = pages
  /\ fileMtime' = mtime[cur]
  /\ UNCHANGED <<storeVars, runVars, faults, calls, prevResults, entry, state,
                 disk, mtime, successCount, exitCode, runsLeft,
                 retryVars, pruneVars, convVars, slugVars, frontVars, watchVars, pollVars>>

\* notionUtils.js 81-83: databases.retrieve
Retrieve ==
  /\ pc = "retrieve"
  /\ calls' = Append(calls, Call("retrieve", 0, NoProps, << >>, TRUE))
  /\ pc' = "query"
  /\ UNCHANGED <<storeVars, runVars, existingPageId, pageProperties,
                 existingBlocks, di, i, faults, pagesAtStart, prevResults, ledgerVars,
                 retryVars, pruneVars, convVars, slugVars, frontVars, watchVars, pollVars>>

\* notionUtils.js 86-261: findPageBySlug, then pageProperties is prepared
Query ==
  /\ pc = "query"
  /\ \E p \in QueryMatches(pages, docs[cur].slug) \cup {0} :
       /\ p = 0 => QueryMatches(pages, docs[cur].slug) = {}
       /\ existingPageId' = p
       /\ pc' = IF p # 0 THEN "update" ELSE "create"
  /\ pageProperties' = PageProperties(schema, docs[cur], clock)
  /\ calls' = Append(calls, Call("query", 0, NoProps, << >>, TRUE))
  /\ UNCHANGED <<storeVars, runVars, existingBlocks, di, i, faults,
                 pagesAtStart, prevResults, ledgerVars,
                 retryVars, pruneVars, convVars, slugVars, frontVars, watchVars, pollVars>>

\* notionUtils.js 267-272: pages.update
UpdateProps ==
  /\ pc = "update"
  /\ pages' = [pages EXCEPT ![existingPageId].props = Merge(@, pageProperties)]
  /\ calls' = Append(calls, Call("update", existingPageId, pageProperties, << >>, TRUE))
  /\ pc' = UpdatePathNext("update")
  /\ UNCHANGED <<schema, nextId, runVars, existingPageId, pageProperties,
                 existingBlocks, di, i, faults, pagesAtStart, prevResults, ledgerVars,
                 retryVars, pruneVars, convVars, slugVars, frontVars, watchVars, pollVars>>

\* notionUtils.js 275-280: blocks.children.list
ListChildren ==
  /\ pc = "list"
  /\ existingBlocks' = ListResults(pages[existingPageId].children)
  /\ di' = 1
  /\ calls' = Append(calls, Call("list", existingPageId, NoProps, << >>, TRUE))
  /\ pc' = UpdatePathNext("list")
  /\ UNCHANGED <<storeVars, runVars, existingPageId, pageProperties, i,
                 faults, pagesAtStart, prevResults, ledgerVars,
                 retryVars, pruneVars, convVars, slugVars, frontVars, watchVars, pollVars>>

\* notionUtils.js 283-285: blocks.delete of the next listed block
DeleteBlock ==
  /\ pc = "delete" /\ di <= Len(existingBlocks)
  /\ pages' = [pages EXCEPT ![existingPageId].children = Without(@, existingBlocks[di])]
  /\ calls' = Append(calls, Call("delete", existingPageId, NoProps, << >>, TRUE))
  /\ di' = di + 1
  /\ UNCHANGED <<schema, nextId, runVars, pc, existingPageId, pageProperties,
                 existingBlocks, i, faults, pagesAtStart, prevResults, ledgerVars,
                 retryVars, pruneVars, convVars, slugVars, frontVars, watchVars, pollVars>>

\* notionUtils.js 286-288: the delete failed, the error is logged and dropped
DeleteBlockFail ==
  /\ pc = "delete" /\ di <= Len(existingBlocks)
  /\ faults > 0
  /\ faults' = faults - 1
  /\ calls' = Append(calls, Call("delete", existingPageId, NoProps, << >>, FALSE))
  /\ di' = di + 1
  /\ UNCHANGED <<storeVars, runVars, pc, existingPageId, pageProperties,
                 existingBlocks, i, pagesAtStart, prevResults, ledgerVars,
                 retryVars, pruneVars, convVars, slugVars, frontVars, watchVars, pollVars>>

\* notionUtils.js 283: the for-of loop is exhausted
DeleteDone ==
  /\ pc = "delete" /\ di > Len(existingBlocks)
  /\ pc' = UpdatePathNext("delete")
  /\ UNCHANGED <<storeVars, runVars, existingPageId, pageProperties,
                 existingBlocks, di, i, faults, histVars, ledgerVars,
                 retryVars, pruneVars, convVars, slugVars, frontVars, watchVars, pollVars>>

\* notionUtils.js 292-307: one blocks.children.append of the next chunk
AppendChunk ==
  /\ pc = "append" /\ i < Len(docs[cur].content)
  /\ LET chunk == Chunk(docs[cur].content, i)
     IN /\ StoreAccepts(chunk)
        /\ pages' = [pages EXCEPT ![existingPageId].children = @ \o Fresh(chunk, nextId)]
        /\ nextId' = nextId + Len(chunk)
        /\ calls' = Append(calls, Call("append", existingPageId, NoProps, chunk, TRUE))
  /\ i' = i + chunkSize
  /\ UNCHANGED <<schema, runVars, pc, existingPageId, pageProperties,
                 existingBlocks, di, faults, pagesAtStart, prevResults, ledgerVars,
                 retryVars, pruneVars, convVars, slugVars, frontVars, watchVars, pollVars>>

\* notionUtils.js 292, 297: no content, or the for loop is exhausted
AppendDone ==
  /\ pc = "append" /\ ~(i < Len(docs[cur].content))
  /\ pc' = UpdatePathNext("append")
  /\ UNCHANGED <<storeVars, runVars, existingPageId, pageProperties,
                 existingBlocks, di, i, faults, histVars, ledgerVars,
                 retryVars, pruneVars, convVars, slugVars, frontVars, watchVars, pollVars>>

\* notionUtils.js 312-330: pages.create with every block as children; the
\* store rejects a call above its ceiling and the error is thrown
CreatePage ==
  /\ pc = "create"
  /\ LET children == CreateChildren(docs[cur].content)
     IN IF StoreAccepts(children)
        THEN /\ pages' = Append(pages, Page(pageProperties, Fresh(children, nextId)))
             /\ nextId' = nextId + Len(children)
             /\ calls' = Append(calls, Call("create", Len(pages) + 1, pageProperties, children, TRUE))
             /\ pc' = "return"
             /\ UNCHANGED <<schema, runVars, ledgerVars>>
        ELSE /\ calls' = Append(calls, Call("create", 0, pageProperties, children, FALSE))
             /\ FileFailed
             /\ UNCHANGED <<storeVars, docs>>
  /\ UNCHANGED <<existingPageId, pageProperties, existingBlocks, di, i,
                 faults, pagesAtStart, prevResults, retryVars, pruneVars, convVars, slugVars, frontVars, watchVars, pollVars>>

\* a remote call other than a delete fails after withRetry gave up: the
\* error leaves createOrUpdatePage (notionUtils.js 335-338)
CallFails ==
  /\ pc \in {"retrieve", "query", "update", "list", "append", "create"}
  /\ pc = "append" => i < Len(docs[cur].content)
  /\ faults > 0
  /\ faults' = faults - 1
  /\ calls' = Append(calls, Call(pc, existingPageId, NoProps, << >>, FALSE))
  /\ FileFailed
  /\ UNCHANGED <<storeVars, docs, existingPageId, pageProperties,
                 existingBlocks, di, i, pagesAtStart, prevResults, retryVars, pruneVars, convVars, slugVars, frontVars, watchVars, pollVars>>

\* notionUtils.js 332-334 and sync-to-notion.js 80-88: the page id is
\* returned, the file is reported as synced
Finish ==
  /\ pc = "return"
  /\ results' = Append(results, TRUE)
  /\ state' = IF HasLedger(entry)
              THEN [state EXCEPT ![cur] = Entry(clock, docs[cur].slug, docs[cur].title)]
              ELSE state
  /\ successCount' = successCount + (IF Counted(entry, TRUE) THEN 1 ELSE 0)
  /\ cur' = NextFile(cur)
  /\ clock' = clock + 1
  /\ pc' = AfterFile(entry)
  /\ UNCHANGED <<storeVars, docs, existingPageId, pageProperties,
                 existingBlocks, di, i, faults, entry, disk, mtime, fileMtime, exitCode,
                 runsLeft, histVars, retryVars, pruneVars, convVars, slugVars, frontVars, watchVars, pollVars>>

\* sync-to-notion.js 125, 37-43: saveSyncState writes the ledger to disk
Save ==
  /\ pc = "save"
  /\ disk' = Persisted(state, disk)
  /\ pc' = "start"
  /\ UNCHANGED <<storeVars, runVars, existingPageId, pageProperties,
                 existingBlocks, di, i, faults, entry, state, mtime, fileMtime,
                 successCount, exitCode, runsLeft, histVars, retryVars, pruneVars, convVars, slugVars, frontVars, watchVars, pollVars>>

\* sync-to-notion.js 128-133, test-connection.js 688-689, notionUtils.js
\* 644-650: the loop is over, the summary is printed and the process ends
EndRun ==
  /\ pc = "start" /\ cur > Len(docs)
  /\ pc' = "exited"
  /\ exitCode' = ExitStatus(entry, {k \in 1..Len(results) : ~results[k]})
  /\ UNCHANGED <<storeVars, runVars, existingPageId, pageProperties,
                 existingBlocks, di, i, faults, entry, state, disk, mtime, fileMtime,
                 successCount, runsLeft, histVars, retryVars, pruneVars, convVars, slugVars, frontVars, watchVars, pollVars>>

\* the process ends, after its summary or killed at any point before, and
\* the script is invoked again: main starts over with the ledger it loads
\* from disk (sync-to-notion.js 106) against the store as it was left
NextRun ==
  /\ runsLeft > 0
  /\ runsLeft' = runsLeft - 1
  /\ state' = IF HasLedger(entry) THEN Loaded(disk) ELSE state
  /\ cur' = 1 /\ results' = << >> /\ successCount' = 0 /\ exitCode' = -1
  /\ clock' = clock + 1
  /\ pc' = "start" /\ existingPageId' = 0 /\ pageProperties' = NoProps
  /\ existingBlocks' = << >> /\ di' = 1 /\ i' = 0
  /\ calls' = << >> /\ pagesAtStart' = pages /\ prevResults' = results
  /\ UNCHANGED <<storeVars, docs, faults, entry, disk, mtime, fileMtime, retryVars, pruneVars, convVars, slugVars, frontVars, watchVars, pollVars>>

(***************************************************************************)
(* Initial states: a database schema, the records already in the store and *)
(* the documents of the file list, drawn from bounded families.            *)
(***************************************************************************)
Blocks(n) == [k \in 1..n |-> k]
NoMeta == [k \in MetaKeys |-> Undefined]
OldChildren(n, firstId) == [k \in 1..n |-> Child(firstId + k - 1, 900 + k)]

TitleP == SP("Name", "title", << >>)
SlugP == SP("slug", "rich_text", << >>)
UrlP == SP("URL", "rich_text", << >>)
DateP == SP("Date", "date", << >>)
StatusP == SP("Status", "select", <<"draft", "published">>)
TagsP == SP("Tags", "multi_select", << >>)

\* a record a user or an earlier run left in the database
Record(title, slug, children) ==
  Page([n \in {"Name", "slug"} |->
          IF n = "Name" THEN TitleV(title) ELSE RichTextV(slug)], children)

\* the record of another document, which no run of the model addresses
Bystander == Record("Other", "c", OldChildren(2, 1))
FirstFreeId == Len(Bystander.children) + 1

\* the stores: the bystander alone, or with a record for slug "a" that has
\* n children
StoreWith(n) == <<Bystander, Record("Old", "a", OldChildren(n, FirstFreeId))>>
Stores(sizes) == {<<Bystander>>} \cup {StoreWith(n) : n \in sizes}

Config(sch, store, dd, f) == [schema |-> sch, pages |-> store, docs |-> dd, faults |-> f]

\* large documents against records with up to a list page of children and
\* more, under the schemas that differ in their slug-like properties
LargeLens ==
  (0..MaxSmallLen) \cup
  {k * chunkSize + d : k \in 1..MaxChunks, d \in 0..MaxExtra}
LargeDocs == {Doc("T", "a", 7, << >>, "", NoMeta, Blocks(n)) : n \in LargeLens}
LargeSizes == (0..MaxSmallLen) \cup {listPageSize + d : d \in 0..MaxExtra}
SlugSchemas ==
  { <<TitleP, SlugP, DateP>>,
    <<TitleP, SlugP, UrlP, DateP>>,
    <<TitleP, UrlP, SlugP, DateP>> }
LargeConfigs ==
  {Config(sch, st, <<d1, d2>>, 0) :
     sch \in SlugSchemas, st \in Stores(LargeSizes),
     d1 \in LargeDocs, d2 \in LargeDocs}

\* small documents with and without title and slug, with injected failures
TinyDocs ==
  {Doc(t, sl, 7, << >>, "", NoMeta, Blocks(n)) :
     t \in {"", "T"}, sl \in {"", "a", "b"}, n \in 0..MaxTinyLen}
TinyConfigs ==
  {Config(<<TitleP, SlugP, DateP>>, st, <<d1, d2>>, f) :
     st \in Stores({MaxTinyLen}), d1 \in TinyDocs, d2 \in TinyDocs,
     f \in 0..MaxFaults}

\* one document, synced twice, whose metadata varies, under the schemas
\* that differ in their type property
TypeValues ==
  {Undefined, MV("string", ""), MV("string", "Post"), MV("string", "page"),
   MV("string", "Foo"), MV("array", "Foo"), MV("object", "[object Object]")}
MetaDocs ==
  {Doc("T", "a", d, tg, stt, [k \in MetaKeys |-> IF k = "type" THEN ty ELSE ca],
       Blocks(1)) :
     d \in {0, 7}, tg \in {<< >>, <<"x">>}, stt \in {"", "draft"},
     ty \in TypeValues, ca \in {Undefined, MV("string", "news")}}
TypeProps ==
  {SP(n, "select", o) :
     n \in {"type", "Type", "zh_leixing", "Category"},
     o \in {<< >>, <<"Post", "Page">>}}
TypeSchemas ==
  {<<TitleP, SlugP, DateP, StatusP, TagsP>>} \cup
  {<<TitleP, SlugP, DateP, StatusP, TagsP, tp>> : tp \in TypeProps}
MetaConfigs ==
  {Config(sch, st, <<d, d>>, 0) :
     sch \in TypeSchemas, st \in Stores({1}), d \in MetaDocs}

\* main before its first file (sync-to-notion.js 119)
RunStart ==
  /\ nextId = 1000
  /\ cur = 1 /\ results = << >> /\ clock = 10
  /\ successCount = 0 /\ exitCode = -1 /\ fileMtime = 0
  /\ pc = "start" /\ existingPageId = 0 /\ pageProperties = NoProps
  /\ existingBlocks = << >> /\ di = 1 /\ i = 0
  /\ calls = << >> /\ prevResults = << >>

Configs == LargeConfigs \cup TinyConfigs \cup MetaConfigs

Init ==
  /\ \E c \in Configs :
       /\ schema = c.schema /\ pages = c.pages /\ docs = c.docs
       /\ faults = c.faults
       /\ pagesAtStart = c.pages
  /\ entry = "sync-to-notion"
  /\ state = [k \in 1..Len(docs) |-> NoEntry] /\ disk = state
  /\ mtime = [k \in 1..Len(docs) |-> 5]
  /\ runsLeft = 0
  /\ RunStart
  /\ RetryIdle /\ PruneIdle /\ ConvIdle /\ OthersIdle

Next ==
  \/ ValidateFail
  \/ Begin
  \/ Retrieve
  \/ Query
  \/ UpdateProps
  \/ ListChildren
  \/ DeleteBlock
  \/ DeleteBlockFail
  \/ DeleteDone
  \/ AppendChunk
  \/ AppendDone
  \/ CreatePage
  \/ CallFails
  \/ Finish
  \/ Save
  \/ EndRun

Spec == Init /\ [][Next]_vars

(***************************************************************************)
(* SpecRetry: withRetry alone.                                             *)
(***************************************************************************)
InitRetry ==
  /\ schema = <<TitleP, SlugP>> /\ pages = <<Bystander>>
  /\ docs = << >> /\ faults = 0
  /\ pagesAtStart = <<Bystander>>
  /\ entry = "sync-to-notion" /\ state = << >> /\ disk = << >>
  /\ mtime = << >> /\ runsLeft = 0
  /\ RunStart
  /\ rPc = "loop"
  /\ rMax \in 0..MaxAttemptsBound
  /\ rDelay \in {defaultDelay, 500}
  /\ rFactor \in {defaultFactor, 3}
  /\ rAttempt = 1
  /\ rInvocations = 0 /\ rErrors = << >> /\ rWaits = << >>
  /\ rLastError = NoError /\ rThrown = NoError
  /\ PruneIdle /\ ConvIdle /\ OthersIdle

NextRetry ==
  \/ RetryFnOk /\ UNCHANGED <<storeVars, runVars, upsertVars, ledgerVars, histVars,
                 pruneVars, convVars, slugVars, frontVars, watchVars, pollVars>>
  \/ \E status \in ErrorStatuses :
       RetryFnThrows(status) /\ UNCHANGED <<storeVars, runVars, upsertVars, ledgerVars, histVars,
                 pruneVars, convVars, slugVars, frontVars, watchVars, pollVars>>
  \/ RetryLoopExit /\ UNCHANGED <<storeVars, runVars, upsertVars, ledgerVars, histVars,
                 pruneVars, convVars, slugVars, frontVars, watchVars, pollVars>>

SpecRetry == InitRetry /\ [][NextRetry]_vars

(***************************************************************************)
(* SpecLedger: the batch mains of sync-to-notion.js, test-connection.js    *)
(* and notionUtils.js over two small files, invoked up to MaxRuns times,   *)
(* the process ending at any point in between; sync-to-notion.js starts    *)
(* from any ledger: no entry, one older than the file, one as new as it.   *)
(***************************************************************************)
LedgerDocs ==
  {Doc(t, "a", 7, << >>, "", NoMeta, Blocks(n)) : t \in {"", "T"}, n \in {MaxSmallLen}}
LedgerEntries == {NoEntry, Entry(3, "c", "Other"), Entry(5, "c", "Other")}

InitLedger ==
  /\ schema = <<TitleP, SlugP, DateP>>
  /\ pages \in Stores({MaxSmallLen})
  /\ \E d1 \in LedgerDocs, d2 \in LedgerDocs : docs = <<d1, d2>>
  /\ faults \in 0..MaxFaults
  /\ pagesAtStart = pages
  /\ entry \in Entries
  /\ state \in IF HasLedger(entry)
               THEN [1..Len(docs) -> LedgerEntries]
               ELSE {[k \in 1..Len(docs) |-> NoEntry]}
  /\ disk = state
  /\ mtime = [k \in 1..Len(docs) |-> 5]
  /\ runsLeft = MaxRuns - 1
  /\ RunStart
  /\ RetryIdle /\ PruneIdle /\ ConvIdle /\ OthersIdle

NextLedger ==
  \/ Skip
  \/ ValidateFail
  \/ Begin
  \/ Retrieve
  \/ Query
  \/ UpdateProps
  \/ ListChildren
  \/ DeleteBlock
  \/ DeleteBlockFail
  \/ DeleteDone
  \/ AppendChunk
  \/ AppendDone
  \/ CreatePage
  \/ CallFails
  \/ Finish
  \/ Save
  \/ EndRun
  \/ NextRun

SpecLedger == InitLedger /\ [][NextLedger]_vars

(***************************************************************************)
(* SpecRerun: sync-to-notion.js over one file, small or of several append  *)
(* calls, invoked again after a run that failed or was cut short, while    *)
(* the file may be written to during its upsert.                           *)
(***************************************************************************)
\* a file that takes more append calls than a list page holds blocks when
\* its last call is left out
LongDocs ==
  {Doc("T", "a", 7, << >>, "", NoMeta, Blocks(listPageSize + chunkSize + MaxSmallLen))}

\* the file is saved by its author while its upsert is in flight, that is
\* after its content was read (sync-to-notion.js 62) and before
\* createOrUpdatePage has returned (71-77); fileUtils.js 26-34 would now
\* return the time of this write
Modify ==
  /\ HasLedger(entry)
  /\ pc \notin {"start", "save", "exited"}
  /\ mtime[cur] = fileMtime
  /\ mtime' = [mtime EXCEPT ![cur] = clock]
  /\ clock' = clock + 1
  /\ UNCHANGED <<storeVars, docs, cur, results, upsertVars, entry, state, disk,
                 fileMtime, successCount, exitCode, runsLeft, histVars,
                 retryVars, pruneVars, convVars, slugVars, frontVars, watchVars, pollVars>>

InitRerun ==
  /\ schema = <<TitleP, SlugP, DateP>>
  /\ pages \in Stores({MaxSmallLen})
  /\ \E d \in LedgerDocs \cup LongDocs : docs = <<d>>
  /\ faults \in 0..MaxFaults
  /\ pagesAtStart = pages
  /\ entry = "sync-to-notion"
  /\ state \in [1..Len(docs) -> LedgerEntries]
  /\ disk = state
  /\ mtime = [k \in 1..Len(docs) |-> 5]
  /\ runsLeft = MaxRuns - 1
  /\ RunStart
  /\ RetryIdle /\ PruneIdle /\ ConvIdle /\ OthersIdle

NextRerun ==
  \/ NextLedger
  \/ Modify

SpecRerun == InitRerun /\ [][NextRerun]_vars

(***************************************************************************)
(* SpecPrune: deleteMissingPages (upload-to-notion.js 165-191) against a   *)
(* store of records written by upload-to-notion.js and by others.          *)
(***************************************************************************)
\* upload-to-notion.js:12
SYNC_TAG_NAME == "SyncedFromMarkdown"

\* upload-to-notion.js 168-176: databases.query is called once, without
\* page_size or start_cursor, and returns one page of at most 100 records;
\* the code reads .results only
queryPageSize == 100

\* a record with the properties upload-to-notion.js 120-126 writes: Slug and
\* the tags; an empty slug stands for an empty rich_text array
ManagedRecord(slug, tags) ==
  Page([n \in {"Slug", "zh_biaoqian"} |->
          IF n = "Slug" THEN RichTextV(slug) ELSE MultiSelectV(tags)], << >>)

\* the filter of upload-to-notion.js 170-175: the tags contain SYNC_TAG_NAME
Tagged(page) ==
  /\ "zh_biaoqian" \in DOMAIN page.props
  /\ \E k \in 1..Len(page.props["zh_biaoqian"].items) :
       page.props["zh_biaoqian"].items[k] = SYNC_TAG_NAME

\* the records the query matches, in store order, cut to one page
PruneQueryResults(store) ==
  LET matching == SelectSeq([k \in 1..Len(store) |-> k],
                            LAMBDA k : ~store[k].archived /\ Tagged(store[k]))
  IN SubSeq(matching, 1, Min(Len(matching), queryPageSize))

\* upload-to-notion.js 179-182: the record has a slug and no local file has it
Missing(page, local) ==
  /\ "Slug" \in DOMAIN page.props
  /\ page.props["Slug"].text # ""
  /\ ~\E k \in 1..Len(local) : local[k] = page.props["Slug"].text

\* upload-to-notion.js 168-176
PruneQuery ==
  /\ pPc = "query"
  /\ pResults' = PruneQueryResults(pages)
  /\ pj' = 1
  /\ pPc' = "loop"
  /\ UNCHANGED <<storeVars, batchVars, localSlugs, convVars, slugVars, frontVars, watchVars, pollVars>>

\* upload-to-notion.js 184: the record is archived
PruneArchive ==
  /\ pPc = "loop" /\ pj <= Len(pResults)
  /\ Missing(pages[pResults[pj]], localSlugs)
  /\ pages' = [pages EXCEPT ![pResults[pj]].archived = TRUE]
  /\ pj' = pj + 1
  /\ UNCHANGED <<schema, nextId, batchVars, localSlugs, pPc, pResults, convVars, slugVars, frontVars, watchVars, pollVars>>

\* upload-to-notion.js 180-182: the record is left alone
PruneKeep ==
  /\ pPc = "loop" /\ pj <= Len(pResults)
  /\ ~Missing(pages[pResults[pj]], localSlugs)
  /\ pj' = pj + 1
  /\ UNCHANGED <<storeVars, batchVars, localSlugs, pPc, pResults, convVars, slugVars, frontVars, watchVars, pollVars>>

\* upload-to-notion.js 188-190: the query or an archiving call failed; the
\* catch logs the error and the function returns
PruneCallFails ==
  /\ \/ pPc = "query"
     \/ pPc = "loop" /\ pj <= Len(pResults) /\ Missing(pages[pResults[pj]], localSlugs)
  /\ faults > 0
  /\ faults' = faults - 1
  /\ pPc' = "caught"
  /\ UNCHANGED <<storeVars, runVars, pc, existingPageId, pageProperties,
                 existingBlocks, di, i, ledgerVars, histVars, retryVars,
                 localSlugs, pResults, pj, convVars, slugVars, frontVars, watchVars, pollVars>>

\* upload-to-notion.js 178: the for-of loop is exhausted
PruneDone ==
  /\ pPc = "loop" /\ pj > Len(pResults)
  /\ pPc' = "done"
  /\ UNCHANGED <<storeVars, batchVars, localSlugs, pResults, pj, convVars, slugVars, frontVars, watchVars, pollVars>>

PruneKinds ==
  {ManagedRecord(sl, tg) :
     sl \in {"", "a", "b"}, tg \in {<< >>, <<SYNC_TAG_NAME>>, <<"x", SYNC_TAG_NAME>>}}
\* n records of the tool whose slug "b" may have no local file, behind two
\* records that are to stay
ManyRecords(n) ==
  <<ManagedRecord("a", <<SYNC_TAG_NAME>>), ManagedRecord("b", << >>)>> \o
  [k \in 1..n |-> ManagedRecord("b", <<SYNC_TAG_NAME>>)]
PruneStores ==
  {<<r1, r2>> : r1 \in PruneKinds, r2 \in PruneKinds} \cup
  {ManyRecords(queryPageSize - 1 + d) : d \in 0..MaxExtra}

InitPrune ==
  /\ schema = <<TitleP, SlugP>>
  /\ pages \in PruneStores
  /\ docs = << >> /\ faults \in 0..MaxFaults
  /\ pagesAtStart = pages
  /\ entry = "upload-to-notion" /\ state = << >> /\ disk = << >>
  /\ mtime = << >> /\ runsLeft = 0
  /\ RunStart
  /\ RetryIdle /\ ConvIdle /\ OthersIdle
  /\ localSlugs \in {<< >>, <<"a">>, <<"a", "b">>}
  /\ pPc = "query" /\ pResults = << >> /\ pj = 1

NextPrune ==
  \/ PruneQuery
  \/ PruneArchive
  \/ PruneKeep
  \/ PruneCallFails
  \/ PruneDone

SpecPrune == InitPrune /\ [][NextPrune]_vars

(***************************************************************************)
(* SpecUpload: syncAllArticles (upload-to-notion.js 197-241) with its      *)
(* createOrUpdatePage (107-159), one remote call a step, followed by       *)
(* deleteMissingPages.                                                     *)
(***************************************************************************)
\* what no step of syncAllArticles before deleteMissingPages changes
uploadFrame ==
  <<schema, docs, clock, i, entry, state, disk, mtime, fileMtime, successCount,
    runsLeft, histVars, retryVars, pResults, pj, convVars, slugVars, frontVars,
    watchVars, pollVars>>

\* upload-to-notion.js 120-126: pageProperties
UploadProperties(doc, now) ==
  [n \in {"zh_mingcheng", "Slug", "zh_riqi", "zh_zhuangtai", "zh_biaoqian"} |->
     CASE n = "zh_mingcheng" -> TitleV(doc.title)
       [] n = "Slug" -> RichTextV(doc.slug)
       [] n = "zh_riqi" -> DateV(now)
       [] n = "zh_zhuangtai" -> SelectV("zh_yifabu")
       [] OTHER -> MultiSelectV(<<SYNC_TAG_NAME>>)]

\* upload-to-notion.js 112-115: the records whose Slug equals the slug
UploadQueryMatches(store, slug) ==
  {p \in 1..Len(store) :
     /\ ~store[p].archived
     /\ "Slug" \in DOMAIN store[p].props
     /\ store[p].props["Slug"].text = slug}

\* upload-to-notion.js 207-213: the files are listed; without files the
\* function returns
UploadStart ==
  /\ entry = "upload-to-notion" /\ pc = "start"
  /\ IF docs = << >>
     THEN pc' = "exited" /\ exitCode' = 0
     ELSE pc' = "query" /\ exitCode' = exitCode
  /\ UNCHANGED <<uploadFrame, pages, nextId, cur, results, existingPageId,
                 pageProperties, existingBlocks, di, faults, localSlugs, pPc>>

\* upload-to-notion.js 112-128: databases.query; results[0] is the record
UploadQuery ==
  /\ entry = "upload-to-notion" /\ pc = "query"
  /\ \E p \in UploadQueryMatches(pages, docs[cur].slug) \cup {0} :
       /\ p = 0 => UploadQueryMatches(pages, docs[cur].slug) = {}
       /\ existingPageId' = p
       /\ pc' = IF p # 0 THEN "update" ELSE "create"
  /\ pageProperties' = UploadProperties(docs[cur], clock)
  /\ UNCHANGED <<uploadFrame, pages, nextId, cur, results, existingBlocks, di,
                 faults, exitCode, localSlugs, pPc>>

\* upload-to-notion.js 134: pages.update
UploadUpdate ==
  /\ entry = "upload-to-notion" /\ pc = "update"
  /\ pages' = [pages EXCEPT ![existingPageId].props = Merge(@, pageProperties)]
  /\ pc' = "list"
  /\ UNCHANGED <<uploadFrame, nextId, cur, results, existingPageId,
                 pageProperties, existingBlocks, di, faults, exitCode,
                 localSlugs, pPc>>

\* upload-to-notion.js 137: blocks.children.list, one page of children
UploadList ==
  /\ entry = "upload-to-notion" /\ pc = "list"
  /\ existingBlocks' = ListResults(pages[existingPageId].children)
  /\ di' = 1
  /\ pc' = "delete"
  /\ UNCHANGED <<uploadFrame, pages, nextId, cur, results, existingPageId,
                 pageProperties, faults, exitCode, localSlugs, pPc>>

\* upload-to-notion.js 138-140: blocks.delete of the next listed block
UploadDelete ==
  /\ entry = "upload-to-notion" /\ pc = "delete" /\ di <= Len(existingBlocks)
  /\ pages' = [pages EXCEPT ![existingPageId].children = Without(@, existingBlocks[di])]
  /\ di' = di + 1
  /\ UNCHANGED <<uploadFrame, nextId, cur, results, pc, existingPageId,
                 pageProperties, existingBlocks, faults, exitCode, localSlugs,
                 pPc>>

\* upload-to-notion.js 154 and 229-234: createOrUpdatePage returns the slug,
\* which is pushed to localSlugs; after the last file deleteMissingPages is
\* called with localSlugs
UpsertReturns ==
  /\ results' = Append(results, TRUE)
  /\ localSlugs' = Append(localSlugs, docs[cur].slug)
  /\ cur' = cur + 1
  /\ pc' = IF cur < Len(docs) THEN "query" ELSE "prune"
  /\ pPc' = IF cur < Len(docs) THEN pPc ELSE "query"

\* upload-to-notion.js 143: one blocks.children.append with all the blocks
UploadAppend ==
  /\ entry = "upload-to-notion" /\ pc = "delete" /\ di > Len(existingBlocks)
  /\ StoreAccepts(docs[cur].content)
  /\ pages' = [pages EXCEPT ![existingPageId].children =
                              @ \o Fresh(docs[cur].content, nextId)]
  /\ nextId' = nextId + Len(docs[cur].content)
  /\ UpsertReturns
  /\ UNCHANGED <<uploadFrame, existingPageId, pageProperties, existingBlocks,
                 di, faults, exitCode>>

\* upload-to-notion.js 148-152: pages.create with all the blocks
UploadCreate ==
  /\ entry = "upload-to-notion" /\ pc = "create"
  /\ StoreAccepts(docs[cur].content)
  /\ pages' = Append(pages, Page(pageProperties, Fresh(docs[cur].content, nextId)))
  /\ nextId' = nextId + Len(docs[cur].content)
  /\ UpsertReturns
  /\ UNCHANGED <<uploadFrame, existingPageId, pageProperties, existingBlocks,
                 di, faults, exitCode>>

\* the failing file passed over and the loop continued with the next file
UploadCallSkipsFile ==
  /\ entry = "upload-to-notion"
  /\ \/ pc \in {"query", "update", "list", "create"}
     \/ pc = "delete"
  /\ \/ faults > 0 /\ faults' = faults - 1
     \/ /\ pc = "create" \/ (pc = "delete" /\ di > Len(existingBlocks))
        /\ ~StoreAccepts(docs[cur].content)
        /\ faults' = faults
  /\ results' = Append(results, FALSE)
  /\ cur' = cur + 1
  /\ pc' = IF cur < Len(docs) THEN "query" ELSE "prune"
  /\ pPc' = IF cur < Len(docs) THEN pPc ELSE "query"
  /\ UNCHANGED <<uploadFrame, pages, nextId, existingPageId, pageProperties,
                 existingBlocks, di, exitCode, localSlugs>>

\* upload-to-notion.js 155-158 and 237-240: a remote call of
\* createOrUpdatePage fails (the store rejecting the blocks included), the
\* error is thrown again and caught by syncAllArticles, which exits with 1
UploadCallFails ==
  /\ entry = "upload-to-notion"
  /\ \/ pc \in {"query", "update", "list", "create"}
     \/ pc = "delete"
  /\ \/ faults > 0 /\ faults' = faults - 1
     \/ /\ pc = "create" \/ (pc = "delete" /\ di > Len(existingBlocks))
        /\ ~StoreAccepts(docs[cur].content)
        /\ faults' = faults
  /\ results' = Append(results, FALSE)
  /\ exitCode' = 1
  /\ pc' = "exited"
  /\ UNCHANGED <<uploadFrame, pages, nextId, cur, existingPageId,
                 pageProperties, existingBlocks, di, localSlugs, pPc>>

\* upload-to-notion.js 234-236: deleteMissingPages has returned
UploadEnd ==
  /\ entry = "upload-to-notion" /\ pc = "prune" /\ pPc \in {"done", "caught"}
  /\ pc' = "exited"
  /\ exitCode' = 0
  /\ UNCHANGED <<uploadFrame, pages, nextId, cur, results, existingPageId,
                 pageProperties, existingBlocks, di, faults, localSlugs, pPc>>

\* a record of the tool with n children
UploadRecord(slug, n) ==
  [ManagedRecord(slug, <<SYNC_TAG_NAME>>) EXCEPT !.children = OldChildren(n, 1)]
\* the store: a record of the tool whose file is gone (slug "c"), alone or
\* behind a record for slug "a" with up to two children
UploadStores ==
  {<<ManagedRecord("c", <<SYNC_TAG_NAME>>)>>} \cup
  {<<UploadRecord("a", n), ManagedRecord("c", <<SYNC_TAG_NAME>>)>> : n \in 0..MaxTinyLen}
UploadFiles ==
  {Doc("T", sl, 0, << >>, "", NoMeta, Blocks(n)) : sl \in {"a", "b"}, n \in 0..MaxSmallLen}
UploadDocs == UNION {[1..n -> UploadFiles] : n \in 0..2}

InitUpload ==
  /\ schema = <<TitleP, SlugP>>
  /\ pages \in UploadStores
  /\ docs \in UploadDocs
  /\ faults \in 0..MaxFaults
  /\ pagesAtStart = pages
  /\ entry = "upload-to-notion" /\ state = << >> /\ disk = << >>
  /\ mtime = << >> /\ runsLeft = 0
  /\ RunStart
  /\ RetryIdle /\ PruneIdle /\ ConvIdle /\ OthersIdle

NextUpload ==
  \/ UploadStart
  \/ UploadQuery
  \/ UploadUpdate
  \/ UploadList
  \/ UploadDelete
  \/ UploadAppend
  \/ UploadCreate
  \/ UploadCallFails
  \/ UploadEnd
  \/ NextPrune

SpecUpload == InitUpload /\ [][NextUpload]_vars

(***************************************************************************)
(* Strings.  A string is the sequence of its characters; the operators     *)
(* below are the String methods and regular expressions the converters     *)
(* use, computed character by character.                                   *)
(***************************************************************************)
NL == "\n"
\* the characters \s matches and trim() strips, as far as the model's
\* alphabet has them
Whitespace == {" ", NL}
Digits == {"0", "1", "2", "3", "4", "5", "6", "7", "8", "9"}

\* s.substring(n)
SubstringFrom(s, n) == SubSeq(s, n + 1, Len(s))

\* s.startsWith(prefix)
StartsWith(s, prefix) ==
  Len(s) >= Len(prefix) /\ SubSeq(s, 1, Len(prefix)) = prefix

RECURSIVE LeadingIn(_, _)
\* the length of the longest prefix of s made of characters of set
LeadingIn(s, set) ==
  IF s = << >> \/ s[1] \notin set THEN 0 ELSE 1 + LeadingIn(Tail(s), set)

RECURSIVE TrailingIn(_, _)
TrailingIn(s, set) ==
  IF s = << >> \/ s[Len(s)] \notin set THEN 0
  ELSE 1 + TrailingIn(SubSeq(s, 1, Len(s) - 1), set)

\* s.trim()
Trim(s) ==
  LET a == LeadingIn(s, Whitespace)
  IN IF a = Len(s) THEN << >>
     ELSE SubSeq(s, a + 1, Len(s) - TrailingIn(s, Whitespace))

RECURSIVE IndexOf(_, _, _)
\* s.indexOf(pat, from), counted from 1; 0 when pat does not occur
IndexOf(s, pat, from) ==
  IF from + Len(pat) - 1 > Len(s) THEN 0
  ELSE IF SubSeq(s, from, from + Len(pat) - 1) = pat THEN from
  ELSE IndexOf(s, pat, from + 1)

\* s.includes(pat)
Includes(s, pat) == IndexOf(s, pat, 1) # 0

RECURSIVE SplitLength(_, _, _)
\* s.split(pat).length for a non-empty pat: one more than the number of
\* occurrences of pat found from the left without overlap
SplitLength(s, pat, from) ==
  LET k == IndexOf(s, pat, from)
  IN IF k = 0 THEN 1 ELSE 1 + SplitLength(s, pat, k + Len(pat))

\* line.match(/^#+/)[0].length
HashLevel(line) == LeadingIn(line, {"#"})

\* line.replace(/^#+\s*/, '').trim()
HeadingContent(line) ==
  LET rest == SubstringFrom(line, HashLevel(line))
  IN Trim(SubstringFrom(rest, LeadingIn(rest, Whitespace)))

\* line.match(/^[-*+]\s/)
IsListItem(line) ==
  Len(line) >= 2 /\ line[1] \in {"-", "*", "+"} /\ line[2] \in Whitespace

\* line.match(/^[-*_]{3,}$/)
IsDivider(line) == Len(line) >= 3 /\ LeadingIn(line, {"-", "*", "_"}) = Len(line)

\* the length of the match of /^\d+\.\s/, 0 when the line does not match
NumberedPrefix(line) ==
  LET d == LeadingIn(line, Digits)
  IN IF d >= 1 /\ Len(line) >= d + 2 /\ line[d + 1] = "." /\ line[d + 2] \in Whitespace
     THEN d + 2 ELSE 0

\* line.match(/!\[(.*?)\]\((.*?)\)/): the leftmost "![", the first "](" after
\* it and the first ")" after that; found is FALSE when there is no match
ImageMatch(line) ==
  LET p == IndexOf(line, <<"!", "[">>, 1)
      q == IF p = 0 THEN 0 ELSE IndexOf(line, <<"]", "(">>, p + 2)
      r == IF q = 0 THEN 0 ELSE IndexOf(line, <<")">>, q + 2)
  IN IF r = 0 THEN [found |-> FALSE, alt |-> << >>, url |-> << >>]
     ELSE [found |-> TRUE, alt |-> SubSeq(line, p + 2, q - 1),
           url |-> SubSeq(line, q + 2, r - 1)]

(***************************************************************************)
(* The Markdown converters: markdownToNotionBlocks of part_001,            *)
(* transformMarkdownToBlocks of notionUtils.js and markdownToNotionBlocks  *)
(* of upload-to-notion.js, one line of the input a step.                   *)
(***************************************************************************)
Converters == {"part_001", "notionUtils", "upload-to-notion"}

NoAnnotations ==
  [bold |-> FALSE, italic |-> FALSE, strikethrough |-> FALSE, code |-> FALSE]
\* a block: its type, the level of a heading, the text of its one rich_text
\* element (runs = 0: rich_text is the empty array), the language of a code
\* block, the url of an image and the annotations of the text; the caption
\* of an image is held as its text (runs = 0: caption is the empty array or
\* there is none)
Block(type, level, text, runs, lang, url, annotations) ==
  [type |-> type, level |-> level, text |-> text, runs |-> runs,
   language |-> lang, url |-> url, annotations |-> annotations]
Heading(level, text) == Block("heading", level, text, 1, << >>, << >>, NoAnnotations)
Paragraph(text, annotations) == Block("paragraph", 0, text, 1, << >>, << >>, annotations)
EmptyParagraph == Block("paragraph", 0, << >>, 0, << >>, << >>, NoAnnotations)
BulletedListItem(text) ==
  Block("bulleted_list_item", 0, text, 1, << >>, << >>, NoAnnotations)
NumberedListItem(text) ==
  Block("numbered_list_item", 0, text, 1, << >>, << >>, NoAnnotations)
Quote(text) == Block("quote", 0, text, 1, << >>, << >>, NoAnnotations)
Divider == Block("divider", 0, << >>, 0, << >>, << >>, NoAnnotations)
Code(text, lang) == Block("code", 0, text, 1, lang, << >>, NoAnnotations)
Image(url, caption) ==
  Block("image", 0, caption, IF caption = << >> THEN 0 ELSE 1, << >>, url,
        NoAnnotations)

\* the backtick character, which a string of this module cannot hold
Backtick == "backtick"
Fence == <<Backtick, Backtick, Backtick>>
PlainText == <<"plain text">>
Javascript == <<"javascript">>
NoContent == <<"No content available">>

\* part_001 156-159: a style is on when its marker occurs and splitting the
\* line at the marker gives an even number of pieces
Styled(line, marker) ==
  Includes(line, marker) /\ SplitLength(line, marker, 1) % 2 = 0
Annotations(line) ==
  [bold |-> Styled(line, <<"*", "*">>), italic |-> Styled(line, <<"*">>),
   strikethrough |-> Styled(line, <<"~", "~">>), code |-> Styled(line, <<Backtick>>)]

\* part_001 35-166 without the code fence: the blocks pushed for a trimmed,
\* non-empty line; a heading deeper than 3 falls through to the paragraph
Part001Line(line) ==
  IF StartsWith(line, <<"#">>) /\ HashLevel(line) <= 3
  THEN <<Heading(HashLevel(line), HeadingContent(line))>>
  ELSE IF IsListItem(line) THEN <<BulletedListItem(Trim(SubstringFrom(line, 2)))>>
  ELSE IF StartsWith(line, <<">", " ">>) THEN <<Quote(Trim(SubstringFrom(line, 2)))>>
  ELSE IF IsDivider(line) THEN <<Divider>>
  ELSE <<Paragraph(line, Annotations(line))>>

\* notionUtils.js 460-563 without the code fence: a heading deeper than 3
\* pushes nothing
TransformLine(line) ==
  IF StartsWith(line, <<"#">>)
  THEN IF HashLevel(line) <= 3
       THEN <<Heading(HashLevel(line), HeadingContent(line))>> ELSE << >>
  ELSE IF IsListItem(line) THEN <<BulletedListItem(Trim(SubstringFrom(line, 2)))>>
  ELSE IF StartsWith(line, <<">", " ">>) THEN <<Quote(Trim(SubstringFrom(line, 2)))>>
  ELSE IF ImageMatch(line).found
       THEN <<Image(ImageMatch(line).url, ImageMatch(line).alt)>>
  ELSE <<Paragraph(line, NoAnnotations)>>

\* upload-to-notion.js 29-74 without the code fence; the line is not trimmed
UploadLine(line) ==
  IF StartsWith(line, <<"#", " ">>) THEN <<Heading(1, SubstringFrom(line, 2))>>
  ELSE IF StartsWith(line, <<"#", "#", " ">>) THEN <<Heading(2, SubstringFrom(line, 3))>>
  ELSE IF StartsWith(line, <<"#", "#", "#", " ">>) THEN <<Heading(3, SubstringFrom(line, 4))>>
  ELSE IF StartsWith(line, <<"-", " ">>) THEN <<BulletedListItem(SubstringFrom(line, 2))>>
  ELSE IF NumberedPrefix(line) > 0
       THEN <<NumberedListItem(SubstringFrom(line, NumberedPrefix(line)))>>
  ELSE IF StartsWith(line, <<">", " ">>) THEN <<Quote(SubstringFrom(line, 2))>>
  ELSE IF StartsWith(line, <<"!", "[">>)
       THEN IF ImageMatch(line).found
            THEN <<Image(ImageMatch(line).url, << >>)>> ELSE << >>
  ELSE IF Trim(line) = << >> THEN <<EmptyParagraph>>
  ELSE <<Paragraph(line, NoAnnotations)>>

\* const line = lines[i].trim() (part_001 32, notionUtils.js 457);
\* const line = lines[i] (upload-to-notion.js 27)
Scanned(conv, raw) == IF conv = "upload-to-notion" THEN raw ELSE Trim(raw)

\* if (!line) continue (part_001 33, notionUtils.js 458)
SkipsLine(conv, line) == conv # "upload-to-notion" /\ line = << >>

\* line.startsWith(fence) (part_001 88, notionUtils.js 497, upload-to-notion.js
\* 50); no branch tested before it accepts a line that starts with the fence
OpensFence(line) == StartsWith(line, Fence)

\* part_001 89, notionUtils.js 498: line.substring(3).trim() || 'plain text';
\* upload-to-notion.js 51, 58: line.substring(3), lang || 'javascript'
FenceLanguage(conv, line) ==
  IF conv = "upload-to-notion"
  THEN IF SubstringFrom(line, 3) = << >> THEN Javascript ELSE SubstringFrom(line, 3)
  ELSE IF Trim(SubstringFrom(line, 3)) = << >> THEN PlainText
       ELSE Trim(SubstringFrom(line, 3))

LineBlocks(conv, line) ==
  CASE conv = "part_001" -> Part001Line(line)
    [] conv = "notionUtils" -> TransformLine(line)
    [] conv = "upload-to-notion" -> UploadLine(line)

\* part_001 94, notionUtils.js 502, upload-to-notion.js 54: the condition of
\* the while loop that collects the code
FenceContinues(ls, k) == k <= Len(ls) /\ ~StartsWith(ls[k], Fence)

\* a fence that is not closed dropped
FenceBlocksClosedOnly(ls, k, content, lang) ==
  IF k > Len(ls) THEN << >> ELSE <<Code(Trim(content), lang)>>

\* part_001 99-109, notionUtils.js 507-517, upload-to-notion.js 58: the code
\* block pushed when the while loop is left, with codeContent.trim()
FenceBlocks(ls, k, content, lang) == <<Code(Trim(content), lang)>>

\* what the argument is when it is not a string
NonText == {"undefined", "number"}

\* part_001 7: !markdown || typeof markdown !== 'string'; the empty string
\* is the one string that is falsy
Rejected(type, ls) == type # "string" \/ ls = << << >> >>

\* part_001 7-26: an empty markdown string, and an argument that is not a
\* string, is answered with one paragraph
ConvNoContent ==
  /\ cPc = "scan" /\ li = 1 /\ converter = "part_001"
  /\ Rejected(typeofMarkdown, lines)
  /\ blocks' = <<Paragraph(NoContent, NoAnnotations)>>
  /\ cPc' = "done"
  /\ UNCHANGED <<storeVars, batchVars, pruneVars, slugVars, frontVars, watchVars,
                 pollVars, converter, lines, li,
                 language, codeContent, currentParagraph, fenceOpenedAt,
                 typeofMarkdown>>

\* a line that is empty once trimmed is passed over
ConvSkipLine ==
  /\ cPc = "scan" /\ li <= Len(lines)
  /\ ~(converter = "part_001" /\ lines = << << >> >>)
  /\ SkipsLine(converter, Scanned(converter, lines[li]))
  /\ li' = li + 1
  /\ UNCHANGED <<storeVars, batchVars, pruneVars, slugVars, frontVars, watchVars,
                 pollVars, converter, lines, blocks,
                 cPc, language, codeContent, currentParagraph, fenceOpenedAt,
                 typeofMarkdown>>

\* a line outside a code fence is turned into its blocks
ConvLine ==
  /\ cPc = "scan" /\ li <= Len(lines)
  /\ ~(converter = "part_001" /\ lines = << << >> >>)
  /\ LET line == Scanned(converter, lines[li])
     IN /\ ~SkipsLine(converter, line)
        /\ ~OpensFence(line)
        /\ blocks' = blocks \o LineBlocks(converter, line)
  /\ li' = li + 1
  /\ UNCHANGED <<storeVars, batchVars, pruneVars, slugVars, frontVars, watchVars,
                 pollVars, converter, lines, cPc,
                 language, codeContent, currentParagraph, fenceOpenedAt,
                 typeofMarkdown>>

\* part_001 88-91, notionUtils.js 497-500, upload-to-notion.js 50-53
ConvOpenFence ==
  /\ cPc = "scan" /\ li <= Len(lines)
  /\ LET line == Scanned(converter, lines[li])
     IN /\ ~SkipsLine(converter, line)
        /\ OpensFence(line)
        /\ language' = FenceLanguage(converter, line)
  /\ codeContent' = << >>
  /\ fenceOpenedAt' = li
  /\ li' = li + 1
  /\ cPc' = "fence"
  /\ UNCHANGED <<storeVars, batchVars, pruneVars, slugVars, frontVars, watchVars,
                 pollVars, converter, lines, blocks,
                 currentParagraph, typeofMarkdown>>

\* part_001 94-97: codeContent += lines[i] + '\n'; i++
ConvFenceLine ==
  /\ cPc = "fence"
  /\ FenceContinues(lines, li)
  /\ codeContent' = codeContent \o lines[li] \o <<NL>>
  /\ li' = li + 1
  /\ UNCHANGED <<storeVars, batchVars, pruneVars, slugVars, frontVars, watchVars,
                 pollVars, converter, lines, blocks,
                 cPc, language, currentParagraph, fenceOpenedAt,
                 typeofMarkdown>>

\* part_001 99-110: the while loop is left at the closing fence or at the
\* end of the input, the code block is pushed, and the continue of the for
\* loop steps over the closing fence
ConvFenceEnd ==
  /\ cPc = "fence"
  /\ ~FenceContinues(lines, li)
  /\ blocks' = blocks \o FenceBlocks(lines, li, codeContent, language)
  /\ li' = li + 1
  /\ cPc' = "scan"
  /\ UNCHANGED <<storeVars, batchVars, pruneVars, slugVars, frontVars, watchVars,
                 pollVars, converter, lines, language,
                 codeContent, currentParagraph, fenceOpenedAt,
                 typeofMarkdown>>

\* part_001 168, notionUtils.js 566; upload-to-notion.js 77-100 copies every
\* block into mergedBlocks one by one, in order, and returns that
ConvReturn ==
  /\ cPc = "scan" /\ li > Len(lines)
  /\ typeofMarkdown = "string"
  /\ cPc' = "done"
  /\ UNCHANGED <<storeVars, batchVars, pruneVars, slugVars, frontVars, watchVars,
                 pollVars, converter, lines, li,
                 blocks, language, codeContent, currentParagraph, fenceOpenedAt,
                 typeofMarkdown>>

\* notionUtils.js 454, upload-to-notion.js 24: markdown.split('\n') is
\* evaluated without a test of the argument; undefined has no properties and
\* a number has no split method, so the call throws a TypeError
ConvRaise ==
  /\ cPc = "scan" /\ li = 1
  /\ converter \in {"notionUtils", "upload-to-notion"}
  /\ typeofMarkdown # "string"
  /\ cPc' = "raised"
  /\ UNCHANGED <<storeVars, batchVars, pruneVars, slugVars, frontVars, watchVars,
                 pollVars, converter, lines, li,
                 blocks, language, codeContent, currentParagraph, fenceOpenedAt,
                 typeofMarkdown>>

(***************************************************************************)
(* The conversion inside processFile of test-connection.js (274-554):      *)
(* lines are collected into paragraphs, and the blocks are filtered,       *)
(* rebuilt and filtered again before they are handed to createOrUpdatePage *)
(***************************************************************************)
RECURSIVE JoinLines(_)
\* currentParagraph.join('\n')
JoinLines(ls) ==
  IF ls = << >> THEN << >>
  ELSE IF Len(ls) = 1 THEN ls[1]
  ELSE ls[1] \o <<NL>> \o JoinLines(Tail(ls))

\* test-connection.js 278-295: flushParagraph, the blocks it pushes
Flushed(paragraph) ==
  IF paragraph # << >> /\ Trim(JoinLines(paragraph)) # << >>
  THEN <<Paragraph(Trim(JoinLines(paragraph)), NoAnnotations)>>
  ELSE << >>

\* test-connection.js 297-345: the blocks pushed for one line, the open
\* paragraph flushed before them where the code flushes it
CollectedBlocks(paragraph, line) ==
  LET trimmedLine == Trim(line)
  IN IF StartsWith(trimmedLine, <<"#">>)
     THEN Flushed(paragraph) \o
          (IF HashLevel(trimmedLine) <= 3
           THEN <<Heading(HashLevel(trimmedLine), HeadingContent(trimmedLine))>>
           ELSE << >>)
     ELSE IF IsListItem(trimmedLine)
     THEN Flushed(paragraph) \o
          <<BulletedListItem(Trim(SubstringFrom(trimmedLine, 2)))>>
     ELSE IF trimmedLine = << >> THEN Flushed(paragraph)
     ELSE << >>

\* test-connection.js 344: a line that is none of the above is added, as
\* written, to the open paragraph, which every other line closes
CollectedParagraph(paragraph, line) ==
  LET trimmedLine == Trim(line)
  IN IF StartsWith(trimmedLine, <<"#">>) \/ IsListItem(trimmedLine)
        \/ trimmedLine = << >>
     THEN << >> ELSE Append(paragraph, line)

\* test-connection.js 356: a paragraph without a text run or with blank text
EmptyParagraphBlock(b) ==
  b.type = "paragraph" /\ (b.runs = 0 \/ Trim(b.text) = << >>)

RECURSIVE Deduplicated(_, _)
\* test-connection.js 351-375: empty paragraphs are dropped, and so is
\* every block whose JSON text is that of a block kept before it
Deduplicated(bs, kept) ==
  IF bs = << >> THEN << >>
  ELSE IF EmptyParagraphBlock(bs[1]) \/ bs[1] \in kept
       THEN Deduplicated(Tail(bs), kept)
       ELSE <<bs[1]>> \o Deduplicated(Tail(bs), kept \cup {bs[1]})

RECURSIVE StripBold(_)
\* content.replace(/\*\*/g, '')
StripBold(s) ==
  IF s = << >> THEN << >>
  ELSE IF Len(s) >= 2 /\ s[1] = "*" /\ s[2] = "*" THEN StripBold(SubstringFrom(s, 2))
  ELSE <<s[1]>> \o StripBold(Tail(s))

\* test-connection.js 376-521: each block is built again, its text without
\* the bold markers; a divider is built again as it is
Rebuilt(b) ==
  IF b.type = "heading"
  THEN [b EXCEPT !.level = Min(@, 3), !.text = StripBold(@)]
  ELSE IF b.type \in {"paragraph", "bulleted_list_item", "numbered_list_item", "quote"}
  THEN [b EXCEPT !.text = StripBold(@)]
  ELSE b

\* test-connection.js 544-554: of a block that has rich_text, the runs
\* without content are removed, and the block is kept when a run is left
ValidBlock(b) ==
  b.type \in {"divider", "image"} \/ (b.runs >= 1 /\ b.text # << >>)

\* test-connection.js 348-554: what is handed to createOrUpdatePage
NotionBlocks(bs) ==
  LET unique == Deduplicated(bs, {})
      rebuilt == [k \in 1..Len(unique) |-> Rebuilt(unique[k])]
  IN SelectSeq(rebuilt, ValidBlock)

\* test-connection.js 297-345: one turn of the for-of loop over the lines
ConvCollectLine ==
  /\ cPc = "collect" /\ li <= Len(lines)
  /\ blocks' = blocks \o CollectedBlocks(currentParagraph, lines[li])
  /\ currentParagraph' = CollectedParagraph(currentParagraph, lines[li])
  /\ li' = li + 1
  /\ UNCHANGED <<storeVars, batchVars, pruneVars, slugVars, frontVars, watchVars,
                 pollVars, converter, lines, cPc,
                 language, codeContent, fenceOpenedAt, typeofMarkdown>>

\* test-connection.js 348-559: the last paragraph is flushed and the blocks
\* are filtered, rebuilt and filtered again
ConvCollectReturn ==
  /\ cPc = "collect" /\ li > Len(lines)
  /\ blocks' = NotionBlocks(blocks \o Flushed(currentParagraph))
  /\ currentParagraph' = << >>
  /\ cPc' = "done"
  /\ UNCHANGED <<storeVars, batchVars, pruneVars, slugVars, frontVars, watchVars,
                 pollVars, converter, lines, li,
                 language, codeContent, fenceOpenedAt, typeofMarkdown>>

\* the lines the inputs are made of: plain lines, headings of level 1 and
\* 4, a blank line, a list item and fences; and besides them a heading of
\* level 3, a quote, a divider, an image and a numbered item
PlainLines == {<<"a">>, <<" ", " ", "b">>}
CoreLines ==
  PlainLines \cup
  { <<"#", " ", "a">>, <<"#", "#", "#", "#", " ", "a">>,
    << >>, <<"-", " ", "c">>, Fence, Fence \o <<"j", "s">> }
LineSet ==
  CoreLines \cup
  { <<"#", "#", "#", " ", "a">>, <<">", " ", "a">>, <<"-", "-", "-">>,
    <<"!", "[", "a", "]", "(", "u", ")">>, <<"1", ".", " ", "a">> }
\* lines with the markers of the inline styles: in pairs, single, and two
\* pairs of one marker
StyleLines ==
  { <<"*", "*", "a", "*", "*">>, <<"*", "*", "a">>, <<"a", "*", "b", "*">>,
    <<"a", "*", "b">>, <<"~", "~", "a", "~", "~">>, <<"a", "~", "~", "b">>,
    <<Backtick, "a", Backtick>>, <<"a", Backtick>>,
    <<Backtick, "a", Backtick, Backtick, "b", Backtick>>,
    <<"#", " ", "*", "*", "a", "*", "*">>, <<"-", " ", "*", "*", "a", "*", "*">>,
    <<"#">>, <<"*", "*", "*", "*">> }
StyleInputs == {<<l>> : l \in StyleLines} \cup {<<l, <<"a">>, l>> : l \in StyleLines}
\* two plain lines, a blank line and a list item
LongInputs ==
  {<<p1, p2, << >>, <<"-", " ", "c">>>> : p1 \in PlainLines, p2 \in PlainLines}
\* the bodies given to processFile of test-connection.js
MixedInputs ==
  UNION {[1..n -> LineSet] : n \in 1..MaxMixedLines} \cup LongInputs
  \cup StyleInputs
\* lines that begin as an image does: without the url, with the url outside
\* parentheses, and well formed without a caption
ImageLines ==
  { <<"!", "[", "a", "]">>, <<"!", "[", "a", "]", "u">>,
    <<"!", "[", "]", "(", "u", ")">> }
ImageInputs == {<<l>> : l \in ImageLines}
Inputs ==
  UNION {[1..n -> CoreLines] : n \in 1..MaxLines} \cup MixedInputs
  \cup ImageInputs

\* notionUtils.js 410-452: the blocks pushed before the content for front
\* matter with or without a title, and without author and date
Preambles(conv) ==
  IF conv \in {"notionUtils", "test-connection"}
  THEN {<<Divider>>, <<Heading(1, <<"T">>), Divider>>}
  ELSE {<< >>}

InitConv ==
  /\ schema = <<TitleP, SlugP>> /\ pages = <<Bystander>>
  /\ docs = << >> /\ faults = 0
  /\ pagesAtStart = pages
  /\ entry = "none" /\ state = << >> /\ disk = << >>
  /\ mtime = << >> /\ runsLeft = 0
  /\ RunStart
  /\ RetryIdle /\ PruneIdle /\ OthersIdle
  /\ \/ /\ converter \in Converters
        /\ \/ typeofMarkdown = "string" /\ lines \in Inputs
           \/ typeofMarkdown \in NonText /\ lines = << >>
        /\ cPc = "scan"
     \/ /\ converter = "test-connection"
        /\ typeofMarkdown = "string" /\ lines \in MixedInputs
        /\ cPc = "collect"
  /\ li = 1
  /\ blocks \in Preambles(converter)
  /\ language = << >> /\ codeContent = << >> /\ currentParagraph = << >>
  /\ fenceOpenedAt = 0

NextConv ==
  \/ ConvRaise
  \/ ConvNoContent
  \/ ConvSkipLine
  \/ ConvLine
  \/ ConvOpenFence
  \/ ConvFenceLine
  \/ ConvFenceEnd
  \/ ConvReturn
  \/ ConvCollectLine
  \/ ConvCollectReturn

\* which of the steps of a converter are possible
ConvStepEnabled ==
  <<ENABLED ConvRaise, ENABLED ConvNoContent, ENABLED ConvSkipLine,
    ENABLED ConvLine, ENABLED ConvOpenFence, ENABLED ConvFenceLine,
    ENABLED ConvFenceEnd, ENABLED ConvReturn, ENABLED ConvCollectLine,
    ENABLED ConvCollectReturn>>

\* a converter is a loop the runtime keeps executing: every step that can
\* be taken is taken
SpecConv == InitConv /\ [][NextConv]_vars /\ WF_vars(NextConv)

(***************************************************************************)
(* SpecSlug: generateSlug (import-articles.js 18-23, part_000 45-50; the   *)
(* same chain of calls is written out in sync-to-notion.js 66-69), one     *)
(* call of the chain a step.                                               *)
(***************************************************************************)
MaxTitleLen == 4

\* a CJK character (one of u4e00-u9fa5)
CJK == "zh_zhong"
\* the characters titles are made of
TitleChars == {"a", "B", "_", CJK, "-", " ", ","}
\* of the characters of the model, those that [^\w\u4e00-\u9fa5-] matches:
\* they are no word character, no CJK character and not the hyphen
Replaced == {" ", ",", "!"}

\* title.toLowerCase()
LowerCased(s) == [k \in 1..Len(s) |-> Lower(s[k])]

RECURSIVE ReplaceRuns(_)
\* .replace(/[^\w\u4e00-\u9fa5-]+/g, '-'): every maximal run of matching
\* characters gives one hyphen
ReplaceRuns(s) ==
  IF s = << >> THEN << >>
  ELSE IF s[1] \in Replaced
       THEN <<"-">> \o ReplaceRuns(SubstringFrom(s, LeadingIn(s, Replaced)))
       ELSE <<s[1]>> \o ReplaceRuns(Tail(s))

\* the hyphens at the end left in place
StripLeadingHyphens(s) == SubstringFrom(s, LeadingIn(s, {"-"}))

\* .replace(/^-+|-+$/g, '')
StripHyphens(s) ==
  LET a == LeadingIn(s, {"-"})
  IN IF a = Len(s) THEN << >>
     ELSE SubSeq(s, a + 1, Len(s) - TrailingIn(s, {"-"}))

SlugLower ==
  /\ gPc = "lower"
  /\ gSlug' = LowerCased(gTitle)
  /\ gPc' = "replace"
  /\ UNCHANGED <<storeVars, batchVars, pruneVars, convVars, frontVars, watchVars,
                 pollVars, gTitle>>

SlugReplace ==
  /\ gPc = "replace"
  /\ gSlug' = ReplaceRuns(gSlug)
  /\ gPc' = "strip"
  /\ UNCHANGED <<storeVars, batchVars, pruneVars, convVars, frontVars, watchVars,
                 pollVars, gTitle>>

SlugStrip ==
  /\ gPc = "strip"
  /\ gSlug' = StripHyphens(gSlug)
  /\ gPc' = "done"
  /\ UNCHANGED <<storeVars, batchVars, pruneVars, convVars, frontVars, watchVars,
                 pollVars, gTitle>>

HelloWorld == <<"H", "e", "l", "l", "o", ",", " ", "W", "o", "r", "l", "d", "!">>
Titles == UNION {[1..n -> TitleChars] : n \in 0..MaxTitleLen} \cup {HelloWorld}

InitSlug ==
  /\ schema = <<TitleP, SlugP>> /\ pages = <<Bystander>>
  /\ docs = << >> /\ faults = 0
  /\ pagesAtStart = pages
  /\ entry = "none" /\ state = << >> /\ disk = << >>
  /\ mtime = << >> /\ runsLeft = 0
  /\ RunStart
  /\ RetryIdle /\ PruneIdle /\ ConvIdle
  /\ FrontIdle /\ WatchIdle /\ PollIdle
  /\ gTitle \in Titles
  /\ gSlug = gTitle
  /\ gPc = "lower"

NextSlug ==
  \/ SlugLower
  \/ SlugReplace
  \/ SlugStrip

SpecSlug == InitSlug /\ [][NextSlug]_vars

(***************************************************************************)
(* SpecFront: the object a batch script hands to createOrUpdatePage for a  *)
(* file (sync-to-notion.js 64-78, upload-to-notion.js 219-227, part_002    *)
(* 36-45), one part of the object literal a step.                          *)
(***************************************************************************)
MaxBaseLen == 2

FrontScripts == {"sync-to-notion", "upload-to-notion", "part_002"}
\* a value of the front matter: null (a key without a value) or a string
FV(form, text) == [form |-> form, text |-> text]
\* the left operand of || is passed over: the key is absent, or its value
\* is null or the empty string
Falsy(data, key) ==
  key \notin DOMAIN data \/ data[key].form = "null" \/ data[key].text = << >>
\* data[key] || other
OrElse(data, key, other) ==
  IF Falsy(data, key) THEN FV("string", other) ELSE data[key]

RECURSIVE ReplaceSpaces(_)
\* .replace(/\s+/g, '-')
ReplaceSpaces(s) ==
  IF s = << >> THEN << >>
  ELSE IF s[1] \in Whitespace
       THEN <<"-">> \o ReplaceSpaces(SubstringFrom(s, LeadingIn(s, Whitespace)))
       ELSE <<s[1]>> \o ReplaceSpaces(Tail(s))

\* the slug computed from the file name: sync-to-notion.js 67-70,
\* upload-to-notion.js 223, part_002 42
FallbackSlug(script, base) ==
  CASE script = "sync-to-notion" -> StripHyphens(ReplaceRuns(LowerCased(base)))
    [] script = "upload-to-notion" -> ReplaceSpaces(LowerCased(base))
    [] OTHER -> base

\* title: frontmatter.title || path.basename(file, '.md')
FrontTitle ==
  /\ frontPc = "title"
  /\ fileData' = Put(fileData, "title", OrElse(frontmatter, "title", baseName))
  /\ frontPc' = "slug"
  /\ UNCHANGED <<storeVars, batchVars, pruneVars, convVars, slugVars, watchVars,
                 pollVars, frontScript, baseName, frontmatter>>

\* slug: frontmatter.slug || the slug computed from the file name
FrontSlug ==
  /\ frontPc = "slug"
  /\ fileData' = Put(fileData, "slug",
                     OrElse(frontmatter, "slug", FallbackSlug(frontScript, baseName)))
  /\ frontPc' = "spread"
  /\ UNCHANGED <<storeVars, batchVars, pruneVars, convVars, slugVars, watchVars,
                 pollVars, frontScript, baseName, frontmatter>>

\* ...frontmatter, the last part of the literal in the three scripts: every
\* key of the front matter is written into the object
FrontSpread ==
  /\ frontPc = "spread"
  /\ fileData' = Merge(fileData, frontmatter)
  /\ frontPc' = "done"
  /\ UNCHANGED <<storeVars, batchVars, pruneVars, convVars, slugVars, watchVars,
                 pollVars, frontScript, baseName, frontmatter>>

BaseChars == {"a", "B", " ", "-"}
BaseNames == UNION {[1..n -> BaseChars] : n \in 1..MaxBaseLen}
\* the values a key of the front matter is given: none, the empty string, a
\* string
FrontValues(text) == {FV("null", << >>), FV("string", << >>), FV("string", text)}
FrontMatters ==
  UNION {[keys -> FrontValues(<<"T">>)] : keys \in SUBSET {"title", "slug"}}

InitFront ==
  /\ schema = <<TitleP, SlugP>> /\ pages = <<Bystander>>
  /\ docs = << >> /\ faults = 0
  /\ pagesAtStart = pages
  /\ entry = "none" /\ state = << >> /\ disk = << >>
  /\ mtime = << >> /\ runsLeft = 0
  /\ RunStart
  /\ RetryIdle /\ PruneIdle /\ ConvIdle /\ SlugIdle /\ WatchIdle /\ PollIdle
  /\ frontScript \in FrontScripts
  /\ baseName \in BaseNames
  /\ frontmatter \in FrontMatters
  /\ fileData = NoProps
  /\ frontPc = "title"

NextFront ==
  \/ FrontTitle
  \/ FrontSlug
  \/ FrontSpread

SpecFront == InitFront /\ [][NextFront]_vars

(***************************************************************************)
(* SpecWatch: the chokidar watchers.  debouncedSync and runSync of the     *)
(* watcher held in config.js (from line 40 on; 63-140) and of              *)
(* test-connection.js (580-624), and debounce with handleFileChange of     *)
(* part_002 (192-254).  A step is a file event, the timer firing, or the   *)
(* end of a sync.                                                          *)
(***************************************************************************)
MaxEvents == 3

Watchers == {"config", "test-connection", "part_002"}
WatchFiles == {"a.md", "b.md"}
DSStore == ".DS_Store"
\* config.js 115-127, test-connection.js 608-611, part_002 187: files whose
\* events are passed over
Ignored(file) == file = DSStore

\* Set.prototype.add: a member keeps its place
SetAdd(set, file) ==
  IF \E k \in 1..Len(set) : set[k] = file THEN set ELSE Append(set, file)

\* a call of runSync(file) (config.js 72-81, test-connection.js 585-593) or
\* of handleFileChange(file) (part_002 217) up to its first await: the flag
\* and the pending set after it, and the sync it has begun, if any
RunSync(script, file, busy, pending) ==
  IF script = "part_002"
  THEN [flag |-> busy, pending |-> pending, begun |-> <<file>>]
  ELSE IF busy
  THEN [flag |-> TRUE,
        pending |-> IF script = "config" THEN SetAdd(pending, file) ELSE pending,
        begun |-> << >>]
  ELSE [flag |-> TRUE, pending |-> pending, begun |-> <<file>>]

\* config.js 114-140, test-connection.js 606-624, part_002 193-198: a file
\* event; the armed timer is cleared and a new one is set for this file
DebouncedSync(file) ==
  /\ watcher \in Watchers /\ eventsLeft > 0
  /\ eventsLeft' = eventsLeft - 1
  /\ syncTimeout' = IF Ignored(file) THEN syncTimeout ELSE file
  /\ UNCHANGED <<storeVars, batchVars, pruneVars, convVars, slugVars, frontVars,
                 pollVars, watcher, isSyncing, pendingFiles, syncing, started>>

\* config.js 137-139, test-connection.js 621-623, part_002 197: the timer
\* fires and runSync (handleFileChange) is called with its file
TimerFires ==
  /\ watcher \in Watchers /\ syncTimeout # NoFile
  /\ LET call == RunSync(watcher, syncTimeout, isSyncing, pendingFiles)
     IN /\ isSyncing' = call.flag
        /\ pendingFiles' = call.pending
        /\ syncing' = syncing \o call.begun
        /\ started' = started \o call.begun
  /\ syncTimeout' = NoFile
  /\ UNCHANGED <<storeVars, batchVars, pruneVars, convVars, slugVars, frontVars,
                 pollVars, watcher, eventsLeft>>

\* the k-th of the syncs under way left out
Ended(running, k) == SubSeq(running, 1, k - 1) \o SubSeq(running, k + 1, Len(running))

\* config.js 90-107: the child process ended well; the file added last to
\* the pending set is taken from it and runSync is called with it, before
\* the flag is reset in the finally block
SyncCompletes ==
  /\ watcher = "config" /\ syncing # << >>
  /\ LET nextFile == pendingFiles[Len(pendingFiles)]
         call == IF pendingFiles # << >>
                 THEN RunSync(watcher, nextFile, isSyncing,
                              SubSeq(pendingFiles, 1, Len(pendingFiles) - 1))
                 ELSE [flag |-> isSyncing, pending |-> pendingFiles, begun |-> << >>]
     IN /\ pendingFiles' = call.pending
        /\ syncing' = call.begun
        /\ started' = started \o call.begun
  /\ isSyncing' = FALSE
  /\ UNCHANGED <<storeVars, batchVars, pruneVars, convVars, slugVars, frontVars,
                 pollVars, watcher, syncTimeout, eventsLeft>>

\* config.js 101-107: the child process failed or was stopped at the time
\* limit; test-connection.js 596-602: processFile returned or threw;
\* part_002 221-244: a handler came to its end
SyncEnds ==
  /\ watcher \in Watchers
  /\ \E k \in 1..Len(syncing) : syncing' = Ended(syncing, k)
  /\ isSyncing' = FALSE
  /\ UNCHANGED <<storeVars, batchVars, pruneVars, convVars, slugVars, frontVars,
                 pollVars, watcher, syncTimeout, pendingFiles, started,
                 eventsLeft>>

InitWatch ==
  /\ schema = <<TitleP, SlugP>> /\ pages = <<Bystander>>
  /\ docs = << >> /\ faults = 0
  /\ pagesAtStart = pages
  /\ entry = "none" /\ state = << >> /\ disk = << >>
  /\ mtime = << >> /\ runsLeft = 0
  /\ RunStart
  /\ RetryIdle /\ PruneIdle /\ ConvIdle /\ SlugIdle /\ FrontIdle /\ PollIdle
  /\ watcher \in Watchers
  /\ syncTimeout = NoFile /\ isSyncing = FALSE /\ pendingFiles = << >>
  /\ syncing = << >> /\ started = << >>
  /\ eventsLeft \in 1..MaxEvents

NextWatch ==
  \/ \E file \in WatchFiles \cup {DSStore} : DebouncedSync(file)
  \/ TimerFires
  \/ SyncCompletes
  \/ SyncEnds

\* an armed timer fires, and a sync comes to its end (the child process of
\* config.js is stopped at the time limit at the latest)
SpecWatch ==
  InitWatch /\ [][NextWatch]_vars
  /\ WF_vars(TimerFires) /\ WF_vars(SyncCompletes \/ SyncEnds)

(***************************************************************************)
(* SpecPoll: the polling watcher, handleFileChange and runCommand of       *)
(* simple-watch.js (46-118), called by checkForChanges (121-152) for every *)
(* file whose modification time has grown.  A step is such a call up to    *)
(* its first await, or the end of an awaited command or delay.             *)
(***************************************************************************)
MaxFailures == 2

\* the commands handleFileChange runs for a file, in order (95-102)
GitCommands == {"add", "commit", "push"}
Commands == GitCommands \cup {"upload"}
\* a child process that has not ended; killed: child.kill() was called
Process(command, killed) == [command |-> command, killed |-> killed]
\* simple-watch.js 50: exec starts a child process for the command
Spawn(procs, command) == Append(procs, Process(command, FALSE))
\* the child process of the awaited command has ended (50-58)
WithoutLive(procs) == SelectSeq(procs, LAMBDA c : c.killed)
\* simple-watch.js 61-67: the timer of runCommand kills the child process
\* and rejects, whether or not the process has ended by then
Killed(procs) == [k \in 1..Len(procs) |-> Process(procs[k].command, TRUE)]

\* what the model leaves alone in every step of the polling watcher
pollFrame ==
  <<storeVars, batchVars, pruneVars, convVars, slugVars, frontVars, watcher,
    syncTimeout, isSyncing, pendingFiles, syncing, started>>

\* simple-watch.js 115-117: the finally block
Finally(pending, procs) ==
  /\ isProcessing' = FALSE
  /\ hPc' = "idle"
  /\ currentFile' = NoFile
  /\ pendingChanges' = pending
  /\ processed' = processed
  /\ childProcesses' = procs

\* simple-watch.js 86-95: the head of the while loop; the first file of the
\* set is taken from it and the first command is started
WhileTurn(pending, procs) ==
  IF pending # << >>
  THEN /\ isProcessing' = TRUE
       /\ currentFile' = pending[1]
       /\ pendingChanges' = Tail(pending)
       /\ processed' = Append(processed, pending[1])
       /\ hPc' = "add"
       /\ childProcesses' = Spawn(procs, "add")
  ELSE Finally(pending, procs)

\* the handler goes on at a position: the head of the loop, the delay of
\* line 110, the finally block, or the next command
Continue(position, pending, procs) ==
  CASE position = "loop" -> WhileTurn(pending, procs)
    [] position = "finally" -> Finally(pending, procs)
    [] position = "delay" ->
         /\ hPc' = "delay"
         /\ childProcesses' = procs
         /\ UNCHANGED <<isProcessing, currentFile, pendingChanges, processed>>
    [] OTHER ->
         /\ hPc' = position
         /\ childProcesses' = Spawn(procs, position)
         /\ UNCHANGED <<isProcessing, currentFile, pendingChanges, processed>>

\* simple-watch.js 95-110: what follows a command that ended well
AfterSuccess(command) ==
  CASE command = "add" -> "commit"
    [] command = "commit" -> "push"
    [] command = "push" -> "upload"
    [] OTHER -> "delay"

\* the error of a git command leaving the while loop
AfterFailureLeavesLoop(command) ==
  IF command = "upload" THEN "delay" ELSE "finally"

\* simple-watch.js 104-113: the error of the upload is caught inside, and the
\* delay follows; the error of a git command is caught at the end of the
\* loop body, and the next turn of the loop follows
AfterFailure(command) ==
  IF command = "upload" THEN "delay" ELSE "loop"

\* simple-watch.js 72-95: handleFileChange(file) up to its first await
HandleFileChange(file) ==
  /\ eventsLeft > 0
  /\ eventsLeft' = eventsLeft - 1
  /\ IF isProcessing
     THEN /\ pendingChanges' = SetAdd(pendingChanges, file)
          /\ UNCHANGED <<isProcessing, currentFile, hPc, childProcesses, processed>>
     ELSE WhileTurn(SetAdd(pendingChanges, file), childProcesses)
  /\ UNCHANGED <<pollFrame, failures>>

\* simple-watch.js 57: the awaited command ended well
CommandOk ==
  /\ hPc \in Commands
  /\ Continue(AfterSuccess(hPc), pendingChanges, WithoutLive(childProcesses))
  /\ UNCHANGED <<pollFrame, eventsLeft, failures>>

\* simple-watch.js 53-56: the awaited command ended with an error
CommandFails ==
  /\ hPc \in Commands /\ failures > 0
  /\ failures' = failures - 1
  /\ Continue(AfterFailure(hPc), pendingChanges, WithoutLive(childProcesses))
  /\ UNCHANGED <<pollFrame, eventsLeft>>

\* simple-watch.js 61-67: the awaited command has not ended after 30 s; it is
\* killed and the promise is rejected at once
CommandTimesOut ==
  /\ hPc \in Commands /\ failures > 0
  /\ failures' = failures - 1
  /\ Continue(AfterFailure(hPc), pendingChanges, Killed(childProcesses))
  /\ UNCHANGED <<pollFrame, eventsLeft>>

\* simple-watch.js 50-58: a child process that was killed ends; its promise
\* is settled already
KilledChildEnds ==
  /\ \E k \in 1..Len(childProcesses) :
       /\ childProcesses[k].killed
       /\ childProcesses' = Ended(childProcesses, k)
  /\ UNCHANGED <<pollFrame, eventsLeft, failures, isProcessing, pendingChanges,
                 currentFile, hPc, processed>>

\* simple-watch.js 110: the delay of one second is over
DelayEnds ==
  /\ hPc = "delay"
  /\ Continue("loop", pendingChanges, childProcesses)
  /\ UNCHANGED <<pollFrame, eventsLeft, failures>>

InitPoll ==
  /\ schema = <<TitleP, SlugP>> /\ pages = <<Bystander>>
  /\ docs = << >> /\ faults = 0
  /\ pagesAtStart = pages
  /\ entry = "none" /\ state = << >> /\ disk = << >>
  /\ mtime = << >> /\ runsLeft = 0
  /\ RunStart
  /\ RetryIdle /\ PruneIdle /\ ConvIdle /\ SlugIdle /\ FrontIdle
  /\ watcher = "simple-watch"
  /\ syncTimeout = NoFile /\ isSyncing = FALSE /\ pendingFiles = << >>
  /\ syncing = << >> /\ started = << >>
  /\ eventsLeft = MaxEvents
  /\ isProcessing = FALSE /\ pendingChanges = << >> /\ currentFile = NoFile
  /\ hPc = "idle" /\ childProcesses = << >> /\ processed = << >>
  /\ failures = MaxFailures

NextPoll ==
  \/ \E file \in WatchFiles : HandleFileChange(file)
  \/ CommandOk
  \/ CommandFails
  \/ CommandTimesOut
  \/ KilledChildEnds
  \/ DelayEnds

\* an awaited command is settled after 30 s at the latest, and the delay
\* ends
SpecPoll ==
  InitPoll /\ [][NextPoll]_vars
  /\ WF_vars(CommandOk \/ CommandFails \/ CommandTimesOut) /\ WF_vars(DelayEnds)

(***************************************************************************)
(* Properties.                                                             *)
(***************************************************************************)
LastCall == calls[Len(calls)]
CallsOf(d, op) == {k \in 1..Len(calls) : calls[k].doc = d /\ calls[k].op = op}
AllSucceeded(d) == \A k \in 1..Len(calls) : calls[k].doc = d => calls[k].ok

RECURSIVE AppendedFrom(_, _)
\* the blocks of the successful append calls of document d from call k on,
\* in call order
AppendedFrom(d, k) ==
  IF k > Len(calls) THEN << >>
  ELSE (IF calls[k].doc = d /\ calls[k].op = "append" /\ calls[k].ok
        THEN calls[k].children ELSE << >>) \o AppendedFrom(d, k + 1)

\* a record as a reader sees it: its properties and its ordered block content
View(page) == [props |-> page.props, blocks |-> Vals(page.children)]

\* C1: two sequential successful createOrUpdatePage calls with the same slug
\* never create two records: once a call has created the record for a slug,
\* a later call for that slug finds it and updates it.
C1_DuplicateAvoidance ==
  \A k1, k2 \in CallsOf(1, "create") \cup CallsOf(2, "create") :
    (/\ k1 < k2 /\ calls[k1].ok /\ calls[k2].ok
     /\ docs[calls[k1].doc].slug = docs[calls[k2].doc].slug) => FALSE

\* C2: when createOrUpdatePage has updated an existing record R with every
\* remote call succeeding, R's children are exactly the document's blocks in
\* order, and no other record has changed.
C2_Reconciliation ==
  (pc = "return" /\ existingPageId # 0 /\ AllSucceeded(cur)) =>
    /\ Vals(pages[existingPageId].children) = docs[cur].content
    /\ Len(pages) = Len(pagesAtStart)
    /\ \A p \in 1..Len(pages) : p # existingPageId => pages[p] = pagesAtStart[p]

\* C3: after a second successful run on the same unchanged document the
\* store holds the same number of records, each with the same properties
\* and the same ordered blocks as after the first run.
C3_Idempotence ==
  (/\ pc = "start" /\ cur = 3 /\ docs[1] = docs[2]
   /\ results = <<TRUE, TRUE>> /\ AllSucceeded(1) /\ AllSucceeded(2)) =>
    /\ Len(pages) = Len(pagesAtStart)
    /\ \A p \in 1..Len(pages) : View(pages[p]) = View(pagesAtStart[p])

\* C4: on the update path the property update has completed before any
\* child is deleted, no child is deleted after an append, and when the
\* first append is issued a delete has been issued for every listed child.
C4_UpdateOrder ==
  Len(calls) > 0 =>
    LET d == LastCall.doc
        before(op) == {k \in CallsOf(d, op) : k < Len(calls)}
    IN /\ LastCall.op = "delete" =>
            /\ \E k \in before("update") : calls[k].ok
            /\ before("append") = {}
       /\ LastCall.op = "append" =>
            /\ \E k \in before("update") : calls[k].ok
            /\ \E k \in before("list") : calls[k].ok
            /\ (d = cur /\ pc = "append") =>
                 Cardinality(CallsOf(d, "delete")) = Len(existingBlocks)

C4_Witness ==
  /\ Len(calls) > 0 /\ LastCall.op = "append" /\ LastCall.ok
  /\ Len(existingBlocks) > 1

\* C5: every append call of the update path carries between 1 and 50
\* blocks, the batches issued so far are a prefix of the document's blocks,
\* and when the update is complete they are exactly the document's blocks.
C5_Batches ==
  /\ (Len(calls) > 0 /\ LastCall.op = "append" /\ LastCall.ok) =>
       (Len(LastCall.children) >= 1 /\ Len(LastCall.children) <= 50)
  /\ (pc \in {"append", "return"} /\ existingPageId # 0) =>
       LET sent == AppendedFrom(cur, 1)
       IN /\ Len(sent) <= Len(docs[cur].content)
          /\ sent = SubSeq(docs[cur].content, 1, Len(sent))
          /\ pc = "return" => sent = docs[cur].content

C5_Witness ==
  /\ pc = "return" /\ existingPageId # 0
  /\ Len(docs[cur].content) = 2 * chunkSize
  /\ Cardinality(CallsOf(cur, "append")) = 2

\* C6: on the create path no remote call carries more children than the
\* store's ceiling of 100 blocks.
C6_CreateWithinCeiling ==
  (Len(calls) > 0 /\ LastCall.op = "create") => Len(LastCall.children) <= 100

\* C7: a document without a title or without a slug fails before any remote
\* call: the step that takes it up changes neither the store nor the call
\* log, reports the file as failed and leaves main at the next file; no
\* remote call is ever issued for such a document, and at the end every
\* file of the list has been processed.
C7_Validation ==
  /\ [][(/\ pc = "start" /\ cur <= Len(docs)
          /\ (docs[cur].title = "" \/ docs[cur].slug = "")) =>
           (/\ pages' = pages /\ calls' = calls
            /\ results' = Append(results, FALSE)
            /\ cur' = cur + 1 /\ pc' = "save")]_vars
  /\ [](\A k \in 1..Len(calls) :
          docs[calls[k].doc].title # "" /\ docs[calls[k].doc].slug # "")
  /\ []((pc = "start" /\ cur > Len(docs)) => Len(results) = Len(docs))

C7_Witness ==
  /\ pc = "start" /\ cur = 3
  /\ docs[1].slug = "" /\ docs[2].slug = "a"
  /\ results = <<FALSE, TRUE>>
  /\ CallsOf(2, "append") # {}

\* C8: whenever the database has a type select property and the document's
\* type value is not among its options, the properties sent carry, under
\* that property's name, a select of the first option, or nothing when
\* there are no options.
C8_TypeFallback ==
  (Len(calls) > 0 /\ LastCall.op \in {"update", "create"} /\ LastCall.ok) =>
    LET k == FindTypeProp(schema)
    IN (k # 0 /\ MatchOption(schema[k].options, TypeValue(docs[LastCall.doc])) = 0) =>
         IF schema[k].options # << >>
         THEN /\ schema[k].name \in DOMAIN LastCall.props
              /\ LastCall.props[schema[k].name] = SelectV(schema[k].options[1])
         ELSE schema[k].name \notin DOMAIN LastCall.props

\* C9: withRetry invokes the operation at most maxAttempts times; the wait
\* after the k-th attempt failed with status 429 is delay * factor^(k-1),
\* 1000 ms then 2000 ms with the defaults; a success is returned at once;
\* when withRetry throws, it throws the last error of the operation.
C9_Retry ==
  /\ rInvocations <= rMax
  /\ Len(rWaits) <= Len(rErrors)
  /\ \A k \in 1..Len(rWaits) :
       rErrors[k].status = 429 =>
         /\ rWaits[k] = rDelay * Pow(rFactor, k - 1)
         /\ (rDelay = 1000 /\ rFactor = 2 /\ k = 1) => rWaits[k] = 1000
         /\ (rDelay = 1000 /\ rFactor = 2 /\ k = 2) => rWaits[k] = 2000
  /\ rPc = "returned" => rInvocations = Len(rErrors) + 1
  /\ (rPc = "thrown" /\ rErrors # << >>) =>
       /\ rInvocations = Len(rErrors)
       /\ rThrown = rErrors[Len(rErrors)]
       /\ rThrown.id = rInvocations

C9_Witness ==
  /\ rPc = "thrown" /\ rMax = defaultMaxAttempts
  /\ rDelay = defaultDelay /\ rFactor = defaultFactor
  /\ rInvocations = 3
  /\ \A k \in 1..3 : rErrors[k].status = 429
  /\ rWaits = <<1000, 2000>>

\* C10: an error that is not a rate-limit signal is surfaced at once: after
\* the operation failed with it, the operation is not invoked again (it was
\* invoked once when that was its first failure), and the error withRetry
\* throws is that error.
C10_PermanentSurfaced ==
  \A k \in 1..Len(rErrors) :
    rErrors[k].status # 429 =>
      /\ rInvocations = k
      /\ rPc = "thrown" => rThrown = rErrors[k]

C13_SuccessCount ==
  successCount = Cardinality({k \in 1..Len(results) : results[k]})

\* C14: a batch run ends with exit status zero exactly when every file of
\* the list succeeded, and with a non-zero status otherwise.
C14_ExitStatus ==
  pc = "exited" => (exitCode = 0 <=> \A k \in 1..Len(results) : results[k])

C16_Prune ==
  /\ pPc = "done" =>
       \A p \in 1..Len(pages) :
         (/\ Tagged(pages[p]) /\ pages[p].props["Slug"].text # ""
          /\ \A k \in 1..Len(localSlugs) : localSlugs[k] # pages[p].props["Slug"].text)
           => pages[p].archived
  /\ pPc # "idle" =>
       \A p \in 1..Len(pages) :
         pages[p].archived =>
           /\ Tagged(pages[p])
           /\ \A k \in 1..Len(localSlugs) : localSlugs[k] # pages[p].props["Slug"].text

RECURSIVE AsWritten(_, _, _)
\* the lines a..b of ls as written, each followed by a newline
AsWritten(ls, a, b) ==
  IF a > b THEN << >> ELSE ls[a] \o <<NL>> \o AsWritten(ls, a + 1, b)

\* s without one trailing newline
ChopNewline(s) ==
  IF s # << >> /\ s[Len(s)] = NL THEN SubSeq(s, 1, Len(s) - 1) ELSE s

\* C17: for every line outside a code fence that, trimmed, starts with
\* n >= 1 '#' characters, markdownToNotionBlocks of part_001 and
\* transformMarkdownToBlocks push exactly one heading block of level
\* min(n, 3) whose text is the line without its leading '#'s and the spaces
\* that follow them.
C17_HeadingClamp ==
  [][(/\ cPc = "scan" /\ li <= Len(lines)
      /\ converter \in {"part_001", "notionUtils"}
      /\ HashLevel(Trim(lines[li])) >= 1) =>
       blocks' = Append(blocks,
                        Heading(Min(HashLevel(Trim(lines[li])), 3),
                                HeadingContent(Trim(lines[li]))))]_vars

\* C18: the language of a code block is the token after the opening fence,
\* or the plain-text tag when there is none; when the closing fence is
\* reached, exactly one code block is pushed whose text is the body lines as
\* written, joined by newlines, without the last newline, and scanning goes
\* on after the closing fence.
C18_CodeFence ==
  /\ [][(cPc = "scan" /\ cPc' = "fence") =>
          language' = LET token == Trim(SubstringFrom(Trim(lines[li]), Len(Fence)))
                      IN IF token = << >> THEN PlainText ELSE token]_vars
  /\ [][(cPc = "fence" /\ cPc' = "scan" /\ li <= Len(lines)) =>
          /\ blocks' = Append(blocks,
                              Code(ChopNewline(AsWritten(lines, fenceOpenedAt + 1, li - 1)),
                                   language))
          /\ li' = li + 1]_vars

C20_ParagraphMerge ==
  (cPc = "done" /\ converter = "part_001" /\ lines \in LongInputs) =>
    /\ Len(blocks) = 2
    /\ blocks[1].type = "paragraph"
    /\ blocks[1].text \in {lines[1] \o <<NL>> \o lines[2],
                             Trim(lines[1]) \o <<NL>> \o Trim(lines[2])}
    /\ blocks[2] = BulletedListItem(<<"c">>)
\* C21: each converter, called with any argument, returns a sequence of
\* blocks: it never raises, its scan of the lines comes to its end, and in
\* every state at most one step is possible, so that the argument fixes the
\* blocks returned.
C21_Total ==
  /\ [](cPc # "raised")
  /\ <>(cPc = "done")
  /\ [](\A a, b \in DOMAIN ConvStepEnabled : (a # b) => ~(ConvStepEnabled[a] /\ ConvStepEnabled[b]))
\* C22: of the blocks a converter returns, every one that is neither a
\* divider nor an image has a text run whose text is not empty; and an input
\* of blank lines only gives no block besides those of the front matter
\* (and the placeholder paragraph part_001 answers the empty string with).
C22_NoEmptyBlock ==
  cPc = "done" =>
    /\ \A k \in 1..Len(blocks) :
         blocks[k].type \notin {"divider", "image"} =>
           (blocks[k].runs >= 1 /\ blocks[k].text # << >>)
    /\ (\A k \in 1..Len(lines) : Trim(lines[k]) = << >>) =>
         \A k \in 1..Len(blocks) :
           blocks[k] \in {Divider, Heading(1, <<"T">>),
                          Paragraph(NoContent, NoAnnotations)}
\* C23: in every paragraph markdownToNotionBlocks of part_001 returns, each
\* of the flags bold, italic, strikethrough and code is on exactly when the
\* text holds the marker of the style a positive even number of times.
C23_InlineStyles ==
  LET Count(text, marker) == SplitLength(text, marker, 1) - 1
      Paired(text, marker) == Count(text, marker) > 0 /\ Count(text, marker) % 2 = 0
  IN (cPc = "done" /\ converter = "part_001") =>
       \A k \in 1..Len(blocks) :
         blocks[k].type = "paragraph" =>
           LET text == blocks[k].text
               flags == blocks[k].annotations
           IN /\ flags.bold = Paired(text, <<"*", "*">>)
              /\ flags.italic = Paired(text, <<"*">>)
              /\ flags.strikethrough = Paired(text, <<"~", "~">>)
              /\ flags.code = Paired(text, <<Backtick>>)
\* C24: the text of every paragraph, heading and list item that
\* markdownToNotionBlocks of part_001 returns and that processFile of
\* test-connection.js hands to createOrUpdatePage is source text as written,
\* inline markers included: a line, the content of a heading line or of a
\* list line, or consecutive lines joined by newlines, without the white
\* space at the two ends (or the title of the front matter, or the
\* placeholder of part_001).
C24_TextAsWritten ==
  LET trimmed == {Trim(lines[k]) : k \in 1..Len(lines)}
      SourceTexts ==
        trimmed \cup {HeadingContent(l) : l \in trimmed}
        \cup {Trim(SubstringFrom(l, 2)) : l \in trimmed}
        \cup {Trim(JoinLines(SubSeq(lines, a, b))) : a, b \in 1..Len(lines)}
        \cup {<<"T">>, NoContent}
  IN (cPc = "done" /\ converter \in {"part_001", "test-connection"}) =>
       \A k \in 1..Len(blocks) :
         blocks[k].type \in {"paragraph", "heading", "bulleted_list_item"} =>
           blocks[k].text \in SourceTexts
\* C25: generateSlug is a function of the title (at every point of the
\* chain exactly one call comes next); no character of its result is an
\* upper-case letter; the result neither begins nor ends with '-'; and
\* generateSlug("Hello, World!") is "hello-world".
C25_SlugStability ==
  /\ gPc \in {"lower", "replace", "strip"} =>
       \E c \in {"lower", "replace", "strip"} :
         /\ ENABLED (NextSlug /\ gPc = c)
         /\ \A o \in {"lower", "replace", "strip"} \ {c} : ~ENABLED (NextSlug /\ gPc = o)
  /\ gPc = "done" =>
       /\ \A k \in 1..Len(gSlug) : gSlug[k] \notin {"B", "H", "W"}
       /\ gSlug # << >> => (gSlug[1] # "-" /\ gSlug[Len(gSlug)] # "-")
       /\ gTitle = HelloWorld =>
            gSlug = <<"h", "e", "l", "l", "o", "-", "w", "o", "r", "l", "d">>

C25_Witness ==
  /\ gPc = "done"
  /\ gTitle = <<"-", "B", ",", "-">>
  /\ gSlug = <<"b">>

\* C26: the slug generateSlug returns never holds two '-' next to each
\* other.
C26_SeparatorCollapse ==
  gPc = "done" => \A k \in 1..(Len(gSlug) - 1) : ~(gSlug[k] = "-" /\ gSlug[k + 1] = "-")
\* C27: in every entry point, the children of every append and create call
\* are taken from a sequence of blocks a converter made of the body, never
\* from the body text itself.
C27_BlocksHanded ==
  \A k \in 1..Len(calls) :
    calls[k].op \in {"append", "create"} => calls[k].content = "blocks"
\* C28: when the deletion of a child has failed for good, no append call
\* for that document follows it, and the document is not reported as
\* synced.
C28_DeleteSurfaced ==
  \A k \in 1..Len(calls) :
    (calls[k].op = "delete" /\ ~calls[k].ok) =>
      /\ \A j \in (k + 1)..Len(calls) :
           ~(calls[j].doc = calls[k].doc /\ calls[j].op = "append")
      /\ Len(results) >= calls[k].doc => ~results[calls[k].doc]
\* C29: a file whose upsert fails leaves its ledger entry as it was; the
\* next run takes the file up again; and when every call of that run
\* succeeds, the children of the file's record are exactly the blocks of
\* the document, in order.
C29_Recovery ==
  /\ [][(HasLedger(entry) /\ runsLeft' = runsLeft
          /\ results' = Append(results, FALSE)) => state' = state]_vars
  /\ [][(/\ pc = "start" /\ cur <= Len(docs) /\ HasLedger(entry)
          /\ runsLeft' = runsLeft
          /\ cur <= Len(prevResults) /\ ~prevResults[cur]
          /\ docs[cur].title # "" /\ docs[cur].slug # "") => pc' = "retrieve"]_vars
  /\ [](( /\ pc = "return" /\ HasLedger(entry) /\ existingPageId # 0
          /\ cur <= Len(prevResults) /\ ~prevResults[cur]
          /\ \A k \in 1..Len(calls) : calls[k].doc = cur => calls[k].ok) =>
          Vals(pages[existingPageId].children) = docs[cur].content)
\* C30: when the file was written to after processMarkdownFile read it, the
\* ledger entry recorded at the end of that upsert does not make the file
\* pass for up to date: its time is earlier than the time of the write.
C30_EditNotLost ==
  [][(pc = "return" /\ HasLedger(entry) /\ state' # state
      /\ mtime[cur] # fileMtime) =>
       state'[cur].lastSynced < mtime[cur]]_vars
\* C37: the blocks processFile of test-connection.js hands to
\* createOrUpdatePage are, in the order of the source, one block for every
\* unit converted from the body that is not empty: no unit is left out
\* because an equal one came before it.
C37_OrderAndMultiplicity ==
  [][(cPc = "collect" /\ cPc' = "done") =>
       LET units == SelectSeq(blocks \o Flushed(currentParagraph),
                              LAMBDA b : ~EmptyParagraphBlock(b))
           rebuilt == [k \in 1..Len(units) |-> Rebuilt(units[k])]
       IN blocks' = SelectSeq(rebuilt, ValidBlock)]_vars
\* C38: for a line that begins with the image syntax, transformMarkdownToBlocks
\* and markdownToNotionBlocks of upload-to-notion.js push exactly one block:
\* an image with the url and the alt text as caption when the line has a
\* url in parentheses, and otherwise a paragraph with the text of the line.
C38_ImageLine ==
  [][(/\ cPc = "scan" /\ li <= Len(lines)
      /\ converter \in {"notionUtils", "upload-to-notion"}
      /\ StartsWith(Scanned(converter, lines[li]), <<"!", "[">>)) =>
       LET line == Scanned(converter, lines[li])
           match == ImageMatch(line)
       IN blocks' = Append(blocks,
                           IF match.found THEN Image(match.url, match.alt)
                           ELSE Paragraph(line, NoAnnotations))]_vars
\* C31: for a file whose front matter has no title, or an empty one, the
\* title handed to createOrUpdatePage is the name of the file, and likewise
\* the slug is the one computed from the name of the file: a key of the
\* front matter that is present without a value does not replace them.
C31_Fallback ==
  frontPc = "done" =>
    /\ Falsy(frontmatter, "title") => fileData["title"] = FV("string", baseName)
    /\ Falsy(frontmatter, "slug") =>
         fileData["slug"] = FV("string", FallbackSlug(frontScript, baseName))
\* C32: syncAllArticles calls deleteMissingPages only after every local file
\* was upserted, with the slugs of all of them; a record is archived by
\* deleteMissingPages only; and in a run in which the upsert of a file
\* failed no record is archived.
C32_PruneAfterAll ==
  /\ [](pPc # "idle" =>
         /\ cur > Len(docs)
         /\ localSlugs = [k \in 1..Len(docs) |-> docs[k].slug]
         /\ \A k \in 1..Len(results) : results[k])
  /\ [][(\E p \in 1..Len(pages) : pages'[p].archived # pages[p].archived) =>
          pPc = "loop"]_vars
  /\ []((\E k \in 1..Len(results) : ~results[k]) =>
         \A p \in 1..Len(pagesAtStart) : pages[p].archived = pagesAtStart[p].archived)

\* the second of two files fails after the first was upserted: the process
\* has ended and the record without a file is still there
C32_Witness ==
  /\ entry = "upload-to-notion" /\ pc = "exited" /\ exitCode = 1
  /\ results = <<TRUE, FALSE>> /\ localSlugs = <<"a">>
  /\ pPc = "idle"
  /\ \E p \in 1..Len(pages) :
       pages[p].props["Slug"].text = "c" /\ ~pages[p].archived
\* C33: in the watcher of config.js a file handed to runSync while a sync
\* is under way is put into the pending set; when that sync ends, a sync of
\* a pending file begins at once, with no further file event; and whenever
\* the watcher is idle (the flag is off and no timer is armed) the pending
\* set is empty.
C33_PendingSet ==
  /\ [][(watcher = "config" /\ isSyncing /\ syncTimeout # NoFile
          /\ syncTimeout' = NoFile) =>
          \E k \in 1..Len(pendingFiles') : pendingFiles'[k] = syncTimeout]_vars
  /\ [][(watcher = "config" /\ syncing # << >> /\ syncing' # syncing
          /\ pendingFiles # << >>) =>
          /\ syncing' # << >>
          /\ \E k \in 1..Len(pendingFiles) : pendingFiles[k] = syncing'[1]]_vars
  /\ []((watcher = "config" /\ ~isSyncing /\ syncTimeout = NoFile) =>
         pendingFiles = << >>)
\* C34: a file whose event has armed the timer is synced, also when an
\* event for another file arrives before the timer has fired.
C34_DebounceKeepsFiles ==
  \A file \in WatchFiles :
    (syncTimeout = file /\ ~\E k \in 1..Len(started) : started[k] = file)
      ~> (\E k \in 1..Len(started) : started[k] = file)
\* C35: at most one child process of the polling watcher is in progress at
\* a time, and the flag isProcessing is on exactly while the handler is at
\* work, so that it is off again when the handler has ended, whatever the
\* outcome of its commands.
C35_MutualExclusion ==
  /\ Len(childProcesses) <= 1
  /\ isProcessing <=> hPc # "idle"
\* C36: every file in the pending set of simple-watch.js is taken from it
\* by the handler; the pending set holds a file once at most; a command
\* that fails or runs into the time limit while files are pending leaves
\* the handler at work, on the delay or on the first pending file; and the
\* pending set is empty whenever isProcessing is off.
C36_Queue ==
  /\ \A file \in WatchFiles :
       (\E k \in 1..Len(pendingChanges) : pendingChanges[k] = file)
         ~> (currentFile = file /\ \A k \in 1..Len(pendingChanges) : pendingChanges[k] # file)
  /\ [](\A j, k \in 1..Len(pendingChanges) :
          j # k => pendingChanges[j] # pendingChanges[k])
  /\ [][(failures' < failures /\ pendingChanges # << >>) =>
          /\ isProcessing'
          /\ hPc' = "delay" \/ (hPc' = "add" /\ currentFile' = pendingChanges[1])]_vars
  /\ [](~isProcessing => pendingChanges = << >>)

\* two files were taken from the queue in turn although two commands
\* failed, the third event was for a file already pending, and the handler
\* has ended
C36_Witness ==
  /\ watcher = "simple-watch" /\ ~isProcessing /\ hPc = "idle"
  /\ eventsLeft = 0 /\ failures = 0
  /\ processed = <<"a.md", "b.md">>
  /\ pendingChanges = << >>
====
